---- MODULE Spec2Model ----
(***************************************************************************)
(* A model of the project-host bootstrap orchestrator                      *)
(* (src/src/packages/server/cloud/bootstrap/bootstrap.py).                 *)
(*                                                                         *)
(* The host (filesystem, mount table, block devices, running daemon) is    *)
(* the state; every function of the script that the properties below are   *)
(* about is a small state machine whose steps are the statements of the    *)
(* function that touch the host.  `pc` is the position inside the function *)
(* that is running, "idle" when none is.                                   *)
(***************************************************************************)
EXTENDS Integers, Sequences, FiniteSets, TLC

VARIABLES
    pc,        \* position inside the running function, "idle" between calls
    result,    \* how the last call ended: "none" while it runs
    calls,     \* number of calls made so far
    clean,     \* no external command has failed and nothing was attached to
               \* the host since the current invocation of main started
    \* ---- orchestrator ----
    phase,     \* main's position: index into Phases, 0 when no invocation runs
    run,       \* number of invocations of main so far
    exit,      \* exit code of the last invocation, "none" while one runs
    image_size_gb, \* main's local of that name
    snap,      \* fstab, env file and `current` links when the running invocation started
    prevClean, \* the invocation before the running one returned 0 and was clean
    envfile,   \* the project-host environment file: exists, text
    userExists, \* the runtime user has a passwd entry
    host,      \* facts of the host that main reads and never changes
    \* ---- bundle deployer ----
    dirs,      \* dirs[b][d]: the version directory d under bundle b's root
    current,   \* current[b]: what is at bundle b's `current` path
    remote,    \* remote[b]: archive held by the download file, 0 when there is none
    root,      \* root[b]: bundle b's root directory exists
    eb,        \* extract_bundle's arguments (the BundleSpec fields it reads)
    pre,       \* the bundle's dirs and current when the running call started
    deployed,  \* deployed[b]: some extract_bundle of b has returned normally
    \* ---- retry policy ----
    ar,        \* apt_run's arguments and loop variable: desc, retries, attempt
    runs,      \* number of times the running apt_run has run its command
    slept,     \* the sleeps of the running apt_run, in seconds, in order
    \* ---- service start ----
    cfg,       \* the BootstrapConfig fields the modelled functions read
    wrapper,   \* the bin/project-host wrapper script exists
    daemon,    \* the project-host daemon: "stopped" or "running"
    ran,       \* the commands the running call has issued, in order
    \* ---- storage ----
    dev,       \* dev[d]: block device d: exists, size (MiB), fstype, gen (mkfs count)
    mnt,       \* mnt[m]: what is mounted at mountpoint m, "none" when nothing is
    img,       \* img[p]: the loopback image file at path p
    fstab,     \* /etc/fstab: exists, text
    legacy,    \* what is at the path /btrfs
    sb,        \* setup_btrfs's locals: data_disk, attempt, image_path, blind;
               \* and pre: fstab, mounts and devices when the running call started
    sleeps,    \* seconds the running setup_btrfs has slept
    \* ---- invocation ----
    only,      \* main's local of that name: the subset selected, {} for a full run
    trace,     \* the functions main has called in the running invocation, in order
    logged,    \* the log lines of the running invocation or call, in order
    markers,   \* markers[p]: the done-marker file p exists
    paths,     \* the bootstrap directories: which exist, and who owns them; made,
               \* the helper scripts, packages and files of the optional features
               \* that exist; sudoers, the rules of the runtime sudoers fragment
    secret,    \* /mnt/cocalc/data/secrets/master-conat-token: exists, data, mode, owner
    mt,        \* the running setup_master_conat_token: pre, the secret file when it was called
    rawdoc     \* the JSON document load_config reads (its local `raw`): the kind of each field's value

bundleVars == <<dirs, current, remote, root, eb, pre, deployed>>
aptVars == <<ar, runs, slept>>
startVars == <<wrapper, daemon>>
diskVars == <<dev, mnt, img, fstab, legacy, sb, sleeps>>
\* the variables of whatever drives the calls
invVars == <<only, trace, logged, markers, paths, secret, mt, rawdoc>>
mainVars == <<phase, run, exit, image_size_gb, snap, prevClean, invVars>>
drv == <<calls, phase, run, exit, image_size_gb, snap, prevClean, invVars>>
\* what the steps of each function leave alone
othersEB == <<aptVars, cfg, host, startVars, ran, diskVars, envfile, userExists, clean>>
othersApt == <<bundleVars, cfg, host, startVars, ran, diskVars, envfile, userExists>>
othersSP == <<bundleVars, aptVars, cfg, host, diskVars, envfile, userExists>>
othersSB == <<bundleVars, aptVars, cfg, host, startVars, envfile, userExists>>
vars == <<pc, result, calls, clean, phase, run, exit, image_size_gb, snap, prevClean,
          envfile, userExists, host,
          dirs, current, remote, root, eb, pre, deployed,
          ar, runs, slept, cfg, wrapper, daemon, ran,
          dev, mnt, img, fstab, legacy, sb, sleeps,
          only, trace, logged, markers, paths, secret, mt, rawdoc>>

----------------------------------------------------------------------------
(* Bounds of the model *)

\* number of distinct archives a bundle URL can serve
NArchives == 2
\* number of version directories under a bundle root
NVersions == 2
\* number of calls of an operation in one behaviour
MaxCalls == 2
\* largest `retries` an apt_run call is given
MaxRetries == 4
\* a data disk is attached during the first MaxAttachWait polls or not at all
MaxAttachWait == 2
\* number of invocations of main in one behaviour
MaxRuns == 2

\* lines of /etc/fstab before the bootstrap
MaxFstabLines == 2
\* lines of the environment file before an upsert
MaxEnvLines == 2

Bundles == {"project_host_bundle", "project_bundle", "tools_bundle"}
VersionDirs == 1..NVersions
Archives == 1..NArchives

----------------------------------------------------------------------------
(* Text: a string is a sequence of characters *)

IsSpace(c) == c \in {" ", "\t", "\n"}

RECURSIVE lstrip(_)
lstrip(s) == IF s # <<>> /\ IsSpace(Head(s)) THEN lstrip(Tail(s)) ELSE s

RECURSIVE rstrip(_)
rstrip(s) ==
    IF s # <<>> /\ IsSpace(s[Len(s)]) THEN rstrip(SubSeq(s, 1, Len(s) - 1)) ELSE s

\* str.strip()
strip(s) == rstrip(lstrip(s))

LowerChar(c) ==
    CASE c = "A" -> "a" [] c = "B" -> "b" [] c = "C" -> "c"
      [] c = "D" -> "d" [] c = "E" -> "e" [] c = "F" -> "f"
      [] OTHER -> c

UpperChar(c) ==
    CASE c = "a" -> "A" [] c = "b" -> "B" [] c = "c" -> "C"
      [] c = "d" -> "D" [] c = "e" -> "E" [] c = "f" -> "F"
      [] OTHER -> c

\* str.lower()
lower(s) == [i \in 1..Len(s) |-> LowerChar(s[i])]

upper(s) == [i \in 1..Len(s) |-> UpperChar(s[i])]

----------------------------------------------------------------------------
(* Bundles: archives, version directories, the `current` path *)

HexDigits == <<"0", "1", "2", "3", "4", "5", "6", "7",
               "8", "9", "a", "b", "c", "d", "e", "f">>

\* hashlib.sha256(...).hexdigest() of archive a, shortened to two hex digits:
\* lower case, different for different archives.
hexdigest(a) ==
    <<HexDigits[(((170 + a) \div 16) % 16) + 1], HexDigits[((170 + a) % 16) + 1]>>

\* The files archive a holds below its top-level directory.  Odd archives
\* hold the compiled entrypoint, even ones do not.
ArchFiles(a) ==
    CASE (a % 4) = 1 -> {"bundle/index.js", "package.json"}
      [] (a % 4) = 2 -> {"package.json"}
      [] (a % 4) = 3 -> {"dist/main.js", "package.json"}
      [] OTHER -> {"main/index.js"}

\* values the configuration can give BundleSpec.sha256; None and "" are <<>>
ShaConfigs ==
    {<<>>, <<" ">>, hexdigest(1), <<" ">> \o upper(hexdigest(2)) \o <<"\n">>}

\* A version directory: absent, empty (just created), partial (an extraction
\* that stopped partway), deleting (an rmtree that stopped partway), full.
AbsentDir == [st |-> "absent", arch |-> 0, files |-> {}]
EmptyDir == [st |-> "empty", arch |-> 0, files |-> {}]
FullDir(a) == [st |-> "full", arch |-> a, files |-> ArchFiles(a)]
PartialDirs(a) ==
    {[st |-> "partial", arch |-> a, files |-> f] : f \in SUBSET ArchFiles(a) \ {ArchFiles(a)}}
DeletingDirs(d) ==
    {[st |-> "deleting", arch |-> d.arch, files |-> f] : f \in SUBSET d.files \ {d.files}}

\* What is at a `current` path: nothing, a regular file, a real directory,
\* or a symlink to version directory `target`.
NoCurrent == [kind |-> "none", target |-> 0]
FileCurrent == [kind |-> "file", target |-> 0]
DirCurrent == [kind |-> "dir", target |-> 0]
LinkTo(d) == [kind |-> "link", target |-> d]

\* Path.is_symlink()
path_is_symlink(c) == c.kind = "link"

\* Path.exists(): follows symlinks
path_exists(c, ds) ==
    CASE c.kind = "none" -> FALSE
      [] c.kind = "link" -> ds[c.target].st # "absent"
      [] OTHER -> TRUE

\* Path.is_dir(): follows symlinks
path_is_dir(c, ds) ==
    \/ c.kind = "dir"
    \/ c.kind = "link" /\ ds[c.target].st # "absent"

\* a verify_sha256 that compares nothing
verify_sha256_skipped(a, expected) ==
    IF expected = <<>> THEN "return" ELSE "ok"

\* verify_sha256: "return" (nothing to verify), "raise" (checksum mismatch)
\* or "ok", for the download file holding archive a.
verify_sha256(a, expected) ==
    IF expected = <<>> THEN "return"
    ELSE IF lower(strip(expected)) = <<>> THEN "return"
    ELSE IF hexdigest(a) # lower(strip(expected)) THEN "raise"
    ELSE "ok"

\* a removal that tests Path.exists() only, which is false for a dangling symlink
remove_op_exists_only(c, ds) ==
    IF path_exists(c, ds)
    THEN IF path_is_dir(c, ds) /\ ~path_is_symlink(c) THEN "rmtree" ELSE "unlink"
    ELSE "skip"

\* extract_bundle, the removal of what is at `current`: the call it makes
remove_op(c, ds) ==
    IF path_is_symlink(c) \/ path_exists(c, ds)
    THEN IF path_is_dir(c, ds) /\ ~path_is_symlink(c) THEN "rmtree" ELSE "unlink"
    ELSE "skip"

\* whether the filesystem carries out that call on c (shutil.rmtree refuses
\* symlinks and non-directories, unlink refuses directories)
RemoveSucceeds(op, c) ==
    CASE op = "rmtree" -> c.kind = "dir"
      [] op = "unlink" -> c.kind \in {"file", "link"}
      [] OTHER -> TRUE

\* extract_bundle, the symlink it publishes
new_current(b) == LinkTo(b.dir)

NoBundle == [bundle |-> "project_host_bundle", dir |-> 1, sha256 |-> <<>>]
NoPre == [dirs |-> [d \in VersionDirs |-> AbsentDir], current |-> NoCurrent]

\* an extract_bundle that works in the directory `current` links to
extract_dir_live(e, c) == IF c.kind = "link" THEN c.target ELSE e.dir

\* bundle.dir: the one directory extract_bundle removes, re-creates and
\* extracts into
extract_dir(e, c) == e.dir

\* extract_bundle(cfg, bundle): entry, up to download_file
EB_Call(b, d, sha) ==
    /\ pc = "idle"
    /\ pc' = "download"
    /\ result' = "none"
    /\ eb' = [bundle |-> b, dir |-> d, sha256 |-> sha]
    /\ pre' = [dirs |-> dirs[b], current |-> current[b]]
    /\ UNCHANGED <<dirs, current, remote, root, deployed>>
    /\ UNCHANGED othersEB

\* download_file succeeds: the download file holds the archive the URL serves
EB_Download ==
    /\ pc = "download"
    /\ \E a \in host.serves[eb.bundle] : remote' = [remote EXCEPT ![eb.bundle] = a]
    /\ pc' = "verify"
    /\ UNCHANGED <<result, drv, dirs, current, root, eb, pre, deployed>>
    /\ UNCHANGED othersEB

\* download_file raises: urlopen failed, and curl is missing or failed too;
\* `ran` gets the transports it tried, one after the other without a pause
EB_DownloadFails ==
    /\ pc = "download"
    /\ pc' = "idle"
    /\ result' = "raised_download"
    /\ ran' = ran \o (IF host.curl THEN <<"urlopen", "curl">> ELSE <<"urlopen">>)
    /\ UNCHANGED <<drv, bundleVars>>
    /\ UNCHANGED <<aptVars, cfg, host, startVars, diskVars, envfile, userExists, clean>>

\* verify_sha256, then Path(bundle.root).mkdir
EB_Verify ==
    /\ pc = "verify"
    /\ IF verify_sha256(remote[eb.bundle], eb.sha256) = "raise"
       THEN /\ pc' = "idle"
            /\ result' = "raised_checksum"
            /\ UNCHANGED root
       ELSE /\ pc' = "rmdir"
            /\ root' = [root EXCEPT ![eb.bundle] = TRUE]
            /\ UNCHANGED result
    /\ UNCHANGED <<drv, dirs, current, remote, eb, pre, deployed>>
    /\ UNCHANGED othersEB

\* if Path(bundle.dir).exists(): shutil.rmtree(bundle.dir) -- rmtree starts
\* removing entries; the directory is partly deleted until it is done
EB_RmTree ==
    /\ pc = "rmdir"
    /\ LET d == extract_dir(eb, current[eb.bundle])
       IN  IF dirs[eb.bundle][d].st # "absent"
           THEN /\ \E p \in DeletingDirs(dirs[eb.bundle][d]) \cup
                            {[dirs[eb.bundle][d] EXCEPT !.st = "deleting", !.files = {}]} :
                      dirs' = [dirs EXCEPT ![eb.bundle][d] = p]
                /\ pc' = "rmtree"
           ELSE /\ pc' = "mkdir"
                /\ UNCHANGED dirs
    /\ UNCHANGED <<result, drv, current, remote, root, eb, pre, deployed>>
    /\ UNCHANGED othersEB

\* shutil.rmtree finishes
EB_RmTreeDone ==
    /\ pc = "rmtree"
    /\ dirs' = [dirs EXCEPT ![eb.bundle][extract_dir(eb, current[eb.bundle])] = AbsentDir]
    /\ pc' = "mkdir"
    /\ UNCHANGED <<result, drv, current, remote, root, eb, pre, deployed>>
    /\ UNCHANGED othersEB

\* Path(bundle.dir).mkdir(parents=True, exist_ok=True)
EB_MkDir ==
    /\ pc = "mkdir"
    /\ dirs' = [dirs EXCEPT ![eb.bundle][extract_dir(eb, current[eb.bundle])] = EmptyDir]
    /\ pc' = "tar"
    /\ UNCHANGED <<result, drv, current, remote, root, eb, pre, deployed>>
    /\ UNCHANGED othersEB

\* tar -xJf ... -C bundle.dir is running: some of the files are written
EB_TarRuns ==
    /\ pc = "tar"
    /\ \E p \in PartialDirs(remote[eb.bundle]) :
          dirs' = [dirs EXCEPT ![eb.bundle][extract_dir(eb, current[eb.bundle])] = p]
    /\ pc' = "untar"
    /\ UNCHANGED <<result, drv, current, remote, root, eb, pre, deployed>>
    /\ UNCHANGED othersEB

\* tar exits 0; the best-effort chown of the root follows
EB_TarDone ==
    /\ pc = "untar"
    /\ dirs' = [dirs EXCEPT ![eb.bundle][extract_dir(eb, current[eb.bundle])] = FullDir(remote[eb.bundle])]
    /\ pc' = "swap"
    /\ UNCHANGED <<result, drv, current, remote, root, eb, pre, deployed>>
    /\ UNCHANGED othersEB

\* tar exits non-zero (or cannot be started): run_cmd raises
EB_TarFails ==
    /\ pc \in {"tar", "untar"}
    /\ pc' = "idle"
    /\ result' = "raised_tar"
    /\ UNCHANGED <<drv, bundleVars>>
    /\ UNCHANGED othersEB

\* removal of whatever is at bundle.current
EB_RemoveCurrent ==
    /\ pc = "swap"
    /\ LET c == current[eb.bundle]
           op == remove_op(c, dirs[eb.bundle])
       IN  IF RemoveSucceeds(op, c)
           THEN /\ current' = [current EXCEPT ![eb.bundle] =
                                  IF op = "skip" THEN c ELSE NoCurrent]
                /\ pc' = "symlink"
                /\ UNCHANGED result
           ELSE /\ pc' = "idle"
                /\ result' = "raised_remove"
                /\ UNCHANGED current
    /\ UNCHANGED <<drv, dirs, remote, root, eb, pre, deployed>>
    /\ UNCHANGED othersEB

\* current_path.symlink_to(Path(bundle.dir)): FileExistsError if the path is taken
EB_Symlink ==
    /\ pc = "symlink"
    /\ pc' = "idle"
    /\ IF current[eb.bundle].kind = "none"
       THEN /\ current' = [current EXCEPT ![eb.bundle] = new_current(eb)]
            /\ deployed' = [deployed EXCEPT ![eb.bundle] = TRUE]
            /\ result' = "ok"
       ELSE /\ result' = "raised_symlink"
            /\ UNCHANGED <<current, deployed>>
    /\ UNCHANGED <<drv, dirs, remote, root, eb, pre>>
    /\ UNCHANGED othersEB

\* the process is terminated while extract_bundle runs
EB_Killed ==
    /\ pc \in {"download", "verify", "rmdir", "rmtree", "mkdir", "tar", "untar",
               "swap", "symlink"}
    /\ pc' = "idle"
    /\ result' = "killed"
    /\ UNCHANGED <<drv, bundleVars>>
    /\ UNCHANGED othersEB

----------------------------------------------------------------------------
(* Retry policy: apt_run *)

AptDescs == {"apt-get update", "apt-get install", "apt-get update (nvidia)",
             "install nvidia-container-toolkit"}

\* the sleep between two attempts, in seconds
apt_backoff(desc) == IF desc = "apt-get update" THEN 5 ELSE 10

\* a retry loop that gives up one attempt late
apt_exhausted_late(attempt, retries) == attempt = retries + 1

\* `if attempt == retries: raise`
apt_exhausted(attempt, retries) == attempt = retries

NoApt == [desc |-> "apt-get update", retries |-> 0, attempt |-> 0]

\* apt_run(cfg, args, desc, retries, timeout): entry; range(1, retries + 1)
\* is empty when retries < 1 and the function returns at once
Apt_Call(desc, retries) ==
    /\ pc = "idle"
    /\ runs' = 0
    /\ slept' = <<>>
    /\ IF retries >= 1
       THEN /\ ar' = [desc |-> desc, retries |-> retries, attempt |-> 1]
            /\ pc' = "apt_try"
            /\ result' = "none"
       ELSE /\ ar' = [desc |-> desc, retries |-> retries, attempt |-> 0]
            /\ pc' = "idle"
            /\ result' = "ok"
    /\ UNCHANGED <<othersApt, clean>>

\* run_cmd returns: the command exited 0 within the timeout
Apt_RunOk ==
    /\ pc = "apt_try"
    /\ runs' = runs + 1
    /\ pc' = "idle"
    /\ result' = "ok"
    /\ UNCHANGED <<drv, ar, slept, othersApt, clean>>

\* run_cmd raises (non-zero exit, timeout, missing executable)
Apt_RunFails ==
    /\ pc = "apt_try"
    /\ runs' = runs + 1
    /\ IF apt_exhausted(ar.attempt, ar.retries)
       THEN /\ pc' = "idle"
            /\ result' = "raised_apt"
       ELSE /\ pc' = "apt_sleep"
            /\ UNCHANGED result
    /\ clean' = FALSE
    /\ UNCHANGED <<drv, ar, slept, othersApt>>

\* log_line, time.sleep, next iteration
Apt_Sleep ==
    /\ pc = "apt_sleep"
    /\ slept' = Append(slept, apt_backoff(ar.desc))
    /\ ar' = [ar EXCEPT !.attempt = ar.attempt + 1]
    /\ pc' = "apt_try"
    /\ UNCHANGED <<drv, result, runs, othersApt, clean>>

----------------------------------------------------------------------------
(* Service start: start_project_host *)

EntryCandidates == <<"bundle/index.js", "main/index.js", "dist/main.js">>

\* the files below a `current` path (through the symlink, if it is one)
FilesUnderCurrent(c, ds) ==
    IF c.kind = "link" /\ ds[c.target].st # "absent" THEN ds[c.target].files ELSE {}

\* the files below a version directory
FilesUnderDir(d, ds) == IF ds[d].st # "absent" THEN ds[d].files ELSE {}

\* an entrypoint search that looks below `current` only
entry_found_current_only(c, d, ds) ==
    LET hits == {e \in 1..Len(EntryCandidates) : EntryCandidates[e] \in FilesUnderCurrent(c, ds)}
    IN  IF hits = {} THEN <<>>
        ELSE <<1, CHOOSE h \in hits : \A g \in hits : h <= g>>

\* entry_found: the first existing candidate, searching `current` then `dir`;
\* <<>> when there is none
entry_found(c, d, ds) ==
    LET roots == <<FilesUnderCurrent(c, ds), FilesUnderDir(d, ds)>>
        hits == {<<r, e>> \in (1..2) \X (1..Len(EntryCandidates)) :
                    EntryCandidates[e] \in roots[r]}
    IN  IF hits = {} THEN <<>>
        ELSE CHOOSE h \in hits :
                \A g \in hits : h[1] < g[1] \/ (h[1] = g[1] /\ h[2] <= g[2])

\* start_project_host(cfg): entry
SP_Call ==
    /\ pc = "idle"
    /\ pc' = "sp_check"
    /\ result' = "none"
    /\ ran' = <<>>
    /\ UNCHANGED <<startVars, othersSP, clean>>

\* the entrypoint guard
SP_Check ==
    /\ pc = "sp_check"
    /\ IF entry_found(current["project_host_bundle"], cfg.dir["project_host_bundle"],
                      dirs["project_host_bundle"]) = <<>>
       THEN /\ pc' = "idle"
            /\ result' = "raised_entrypoint"
       ELSE /\ pc' = "sp_stop"
            /\ UNCHANGED result
    /\ UNCHANGED <<drv, startVars, ran, othersSP, clean>>

\* if Path(bin_path).exists(): run_cmd([bin_path, "daemon", "stop"], check=False)
\* -- the command runs; its exit status is ignored
SP_Stop ==
    /\ pc = "sp_stop"
    /\ IF wrapper
       THEN /\ ran' = Append(ran, "daemon stop")
            /\ \E ok \in BOOLEAN :
                  /\ daemon' = IF ok THEN "stopped" ELSE daemon
                  /\ clean' = (clean /\ ok)
       ELSE UNCHANGED <<ran, daemon, clean>>
    /\ pc' = "sp_start"
    /\ UNCHANGED <<drv, result, wrapper, othersSP>>

\* the stop command cannot be launched: subprocess.run raises, and check=False
\* does not catch that
SP_StopRaises ==
    /\ pc = "sp_stop"
    /\ wrapper
    /\ ran' = Append(ran, "daemon stop")
    /\ pc' = "idle"
    /\ result' = "raised_stop"
    /\ UNCHANGED <<drv, startVars, othersSP, clean>>

\* run_cmd([bin_path, "daemon", "start"]) exits 0
SP_Start ==
    /\ pc = "sp_start"
    /\ wrapper
    /\ ran' = Append(ran, "daemon start")
    /\ daemon' = "running"
    /\ pc' = "idle"
    /\ result' = "ok"
    /\ UNCHANGED <<drv, wrapper, othersSP, clean>>

\* run_cmd([bin_path, "daemon", "start"]) raises: non-zero exit, or no wrapper
SP_StartFails ==
    /\ pc = "sp_start"
    /\ ran' = Append(ran, "daemon start")
    /\ pc' = "idle"
    /\ result' = "raised_start"
    /\ UNCHANGED <<drv, startVars, othersSP, clean>>

----------------------------------------------------------------------------
(* Text files: a text is a sequence of tokens, "\n" the line terminator.   *)
(* A token is a separator (" ", "\t", "=") or a word that holds none of    *)
(* the substrings the code searches for across a token boundary.           *)

NL == "\n"

\* str.splitlines(): the lines of a text, without their terminators
RECURSIVE splitlines(_)
splitlines(text) ==
    IF text = <<>> THEN <<>>
    ELSE IF \E i \in 1..Len(text) : text[i] = NL
         THEN LET i == CHOOSE k \in 1..Len(text) :
                          text[k] = NL /\ \A j \in 1..(k - 1) : text[j] # NL
              IN  <<SubSeq(text, 1, i - 1)>> \o splitlines(SubSeq(text, i + 1, Len(text)))
         ELSE <<text>>

\* "\n".join(lines)
RECURSIVE join(_)
join(lines) ==
    IF lines = <<>> THEN <<>>
    ELSE IF Len(lines) = 1 THEN lines[1]
    ELSE lines[1] \o <<NL>> \o join(Tail(lines))

\* `pat in line`
Contains(line, pat) ==
    \E i \in 1..(Len(line) - Len(pat) + 1) : SubSeq(line, i, i + Len(pat) - 1) = pat

\* line.startswith(pat)
StartsWith(line, pat) == Len(line) >= Len(pat) /\ SubSeq(line, 1, Len(pat)) = pat

AbsentFile == [exists |-> FALSE, text |-> <<>>]
File(text) == [exists |-> TRUE, text |-> text]

\* Path.read_text() if Path.exists() else ""
read_or_empty(f) == IF f.exists THEN f.text ELSE <<>>

----------------------------------------------------------------------------
(* Storage: pick_data_disk, setup_btrfs, update_fstab *)

Devs == {"/dev/sdb", "/dev/nvme1n1"}
ImagePaths == {"/var/lib/cocalc/cocalc.img", "/var/lib/cocalc/btrfs.img"}
Mountpoints == {"/mnt/cocalc", "/btrfs", "/other"}

\* 10 * 1024 * 1024 * 1024 bytes, in MiB
MinDiskMiB == 10240
\* range(60)
PollAttempts == 60

\* blkid -s UUID -o value: a filesystem's UUID is made by mkfs
uuid_of(d, dv) ==
    IF dv[d].fstype = "" THEN "UUID="
    ELSE IF dv[d].gen = 0 THEN "UUID=" \o d \o "#0" ELSE "UUID=" \o d \o "#1"

\* the fstab line of a data disk
disk_fstab_line(d, dv) ==
    <<uuid_of(d, dv), " ", "/mnt/cocalc", " ", "btrfs defaults,nofail 0 0">>

\* the fstab line of a loopback image
image_fstab_line(p) ==
    <<p, " ", "/mnt/cocalc", " ", "btrfs loop,defaults,nofail 0 0 # ", "cocalc-btrfs">>

\* update_fstab: the lines it keeps
fstab_keep(l) ==
    /\ ~Contains(l, <<"cocalc-btrfs">>)
    /\ ~Contains(l, <<" ", "/btrfs", " ">>)
    /\ ~Contains(l, <<" ", "/mnt/cocalc", " ">>)

\* an update_fstab that appends without filtering
update_fstab_append(f, line) ==
    File(join(Append(splitlines(read_or_empty(f)), line)) \o <<NL>>)

\* update_fstab(line): the new text of /etc/fstab
update_fstab(f, line) ==
    LET existing == read_or_empty(f)
        lines == SelectSeq(splitlines(existing), fstab_keep)
    IN  File(join(Append(lines, line)) \o <<NL>>)

\* lsblk -nr -o MOUNTPOINT dev, and the size lsblk -nb -o SIZE reports; a
\* failing lsblk (dev in blind) is read as "not mounted" and as size 0
lsblk_mountpoints(d, m, blind) ==
    IF d \in blind THEN {} ELSE {p \in Mountpoints : m[p] = d}

lsblk_size(d, dv, blind) == IF d \in blind THEN 0 ELSE dv[d].size

\* pick_data_disk(cfg, devices): the first usable device, "none" for None
RECURSIVE pick_data_disk(_, _, _, _)
pick_data_disk(devices, dv, m, blind) ==
    IF devices = <<>> THEN "none"
    ELSE LET d == Head(devices)
             mountpoints == lsblk_mountpoints(d, m, blind)
             size_bytes == lsblk_size(d, dv, blind)
         IN  IF ~dv[d].exists THEN pick_data_disk(Tail(devices), dv, m, blind)
             ELSE IF mountpoints # {} /\ "/mnt/cocalc" \in mountpoints THEN d
             ELSE IF mountpoints # {} THEN pick_data_disk(Tail(devices), dv, m, blind)
             ELSE IF size_bytes # 0 /\ size_bytes < MinDiskMiB
                  THEN pick_data_disk(Tail(devices), dv, m, blind)
             ELSE d

\* Path("/mnt/cocalc").is_mount()
is_mount(m, p) == m[p] # "none"

\* a setup_btrfs that formats whatever is not btrfs
fstype_action_reformat(fstype) ==
    IF fstype # "btrfs" THEN "mkfs" ELSE "use"

\* a setup_btrfs that formats the data disk whatever it carries
fstype_action_format_all(fstype) == "mkfs"

\* setup_btrfs: what it does with the filesystem type lsblk reports
fstype_action(fstype) ==
    IF fstype = "" THEN "mkfs"
    ELSE IF fstype # "btrfs" THEN "refuse"
    ELSE "use"

\* setup_btrfs: the image file it uses
choose_image(im) ==
    IF ~im["/var/lib/cocalc/cocalc.img"].exists /\ im["/var/lib/cocalc/btrfs.img"].exists
    THEN "/var/lib/cocalc/btrfs.img"
    ELSE "/var/lib/cocalc/cocalc.img"

\* ensure_legacy_btrfs_link: what is at /btrfs afterwards
ensure_legacy_btrfs_link(l) ==
    CASE l = "link_ok" -> l
      [] l = "link_other" -> "link_ok"
      [] l = "none" -> "link_ok"
      [] OTHER -> l

NoSb == [data_disk |-> "none", attempt |-> 0, image_path |-> "/var/lib/cocalc/cocalc.img",
         blind |-> {}, size_gb |-> 5,
         pre |-> [fstab |-> AbsentFile,
                  mnt |-> [m \in Mountpoints |-> "none"],
                  dev |-> [d \in Devs |-> [exists |-> FALSE, size |-> 0, fstype |-> "", gen |-> 0]]]]

\* setup_btrfs(cfg, image_size_gb): entry
SB_Call(size_gb) ==
    /\ pc = "idle"
    /\ pc' = "sb_bind"
    /\ result' = "none"
    /\ ran' = <<>>
    /\ sleeps' = 0
    /\ sb' = [NoSb EXCEPT !.size_gb = size_gb,
                          !.pre = [fstab |-> fstab, mnt |-> mnt, dev |-> dev]]
    /\ UNCHANGED <<dev, mnt, img, fstab, legacy, othersSB, clean>>

\* the best-effort bind mount of a mounted legacy /btrfs at /mnt/cocalc
SB_Bind ==
    /\ pc = "sb_bind"
    /\ IF is_mount(mnt, "/btrfs") /\ ~is_mount(mnt, "/mnt/cocalc")
       THEN /\ \E ok \in BOOLEAN :
                  /\ mnt' = IF ok THEN [mnt EXCEPT !["/mnt/cocalc"] = mnt["/btrfs"]] ELSE mnt
                  /\ clean' = (clean /\ ok)
            /\ ran' = Append(ran, <<"mount --bind", "/btrfs">>)
       ELSE UNCHANGED <<mnt, ran, clean>>
    /\ pc' = IF cfg.devices # <<>> THEN "sb_poll" ELSE "sb_image"
    /\ UNCHANGED <<drv, result, dev, img, fstab, legacy, sb, sleeps, othersSB>>

\* one iteration of the wait for the data disk: pick_data_disk
SB_Poll ==
    /\ pc = "sb_poll"
    /\ \E blind \in SUBSET Devs :
          LET d == pick_data_disk(cfg.devices, dev, mnt, blind)
          IN  /\ sb' = [sb EXCEPT !.data_disk = d,
                                    !.blind = IF d # "none" THEN blind ELSE {}]
              /\ pc' = IF d # "none" THEN "sb_fstype" ELSE "sb_sleep"
              /\ clean' = (clean /\ blind = {})
    /\ UNCHANGED <<drv, result, ran, dev, mnt, img, fstab, legacy, sleeps, othersSB>>

\* time.sleep(10): the seconds slept after a poll that found no disk
PollSleep == 10

\* a loop that polls once more than range(60) does
poll_again_once_more(attempt) == attempt < PollAttempts

\* for attempt in range(60): after iteration `attempt` there is another one
poll_again(attempt) == attempt + 1 < PollAttempts

\* "data disk not ready": time.sleep(10), then the next iteration or the end
\* of the loop
SB_Sleep ==
    /\ pc = "sb_sleep"
    /\ sleeps' = sleeps + PollSleep
    /\ sb' = [sb EXCEPT !.attempt = sb.attempt + 1]
    /\ pc' = IF poll_again(sb.attempt) THEN "sb_poll" ELSE "sb_image"
    /\ UNCHANGED <<drv, result, ran, dev, mnt, img, fstab, legacy, othersSB, clean>>

\* a configured disk is attached to the host while setup_btrfs waits for it
SB_DiskAttached ==
    /\ pc = "sb_sleep"
    /\ sb.attempt < MaxAttachWait
    /\ clean' = FALSE
    /\ \E d \in Devs :
          /\ ~dev[d].exists
          /\ dev' = [dev EXCEPT ![d].exists = TRUE]
    /\ UNCHANGED <<drv, pc, result, ran, mnt, img, fstab, legacy, sb, sleeps, othersSB>>

\* lsblk -no FSTYPE data_disk, and the branch on it
SB_Fstype ==
    /\ pc = "sb_fstype"
    /\ LET act == fstype_action(dev[sb.data_disk].fstype)
       IN  IF act = "refuse"
           THEN /\ pc' = "idle"
                /\ result' = "raised_foreign"
           ELSE /\ pc' = IF act = "mkfs" THEN "sb_mkfs" ELSE "sb_mount"
                /\ UNCHANGED result
    /\ UNCHANGED <<drv, ran, dev, mnt, img, fstab, legacy, sb, sleeps, othersSB, clean>>

\* mkfs.btrfs -f data_disk exits 0
SB_Mkfs ==
    /\ pc = "sb_mkfs"
    /\ ran' = Append(ran, <<"mkfs.btrfs", sb.data_disk>>)
    /\ dev' = [dev EXCEPT ![sb.data_disk].fstype = "btrfs", ![sb.data_disk].gen = 1]
    /\ pc' = "sb_mount"
    /\ UNCHANGED <<drv, result, mnt, img, fstab, legacy, sb, sleeps, othersSB, clean>>

\* if not Path("/mnt/cocalc").is_mount(): mount data_disk /mnt/cocalc exits 0
SB_Mount ==
    /\ pc = "sb_mount"
    /\ IF ~is_mount(mnt, "/mnt/cocalc")
       THEN /\ dev[sb.data_disk].fstype # ""
            /\ mnt' = [mnt EXCEPT !["/mnt/cocalc"] = sb.data_disk]
            /\ ran' = Append(ran, <<"mount", sb.data_disk>>)
       ELSE UNCHANGED <<mnt, ran>>
    /\ pc' = "sb_fstab"
    /\ UNCHANGED <<drv, result, dev, img, fstab, legacy, sb, sleeps, othersSB, clean>>

\* blkid, then update_fstab with the data disk's line
SB_Fstab ==
    /\ pc = "sb_fstab"
    /\ fstab' = update_fstab(fstab, disk_fstab_line(sb.data_disk, dev))
    /\ pc' = "sb_legacy"
    /\ UNCHANGED <<drv, result, ran, dev, mnt, img, legacy, sb, sleeps, othersSB, clean>>

\* the loopback branch: the image file to use, and whether it is there
SB_Image ==
    /\ pc = "sb_image"
    /\ sb' = [sb EXCEPT !.image_path = choose_image(img)]
    /\ pc' = IF ~img[choose_image(img)].exists THEN "sb_truncate" ELSE "sb_mountimg"
    /\ UNCHANGED <<drv, result, ran, dev, mnt, img, fstab, legacy, sleeps, othersSB, clean>>

\* truncate -s {image_size_gb}G image_path exits 0
SB_Truncate ==
    /\ pc = "sb_truncate"
    /\ img' = [img EXCEPT ![sb.image_path] =
                  [exists |-> TRUE, fstype |-> "", size_gb |-> sb.size_gb]]
    /\ ran' = Append(ran, <<"truncate", sb.image_path>>)
    /\ pc' = "sb_mkfsimg"
    /\ UNCHANGED <<drv, result, dev, mnt, fstab, legacy, sb, sleeps, othersSB, clean>>

\* mkfs.btrfs -f image_path exits 0
SB_MkfsImage ==
    /\ pc = "sb_mkfsimg"
    /\ img' = [img EXCEPT ![sb.image_path].fstype = "btrfs"]
    /\ ran' = Append(ran, <<"mkfs.btrfs", sb.image_path>>)
    /\ pc' = "sb_mountimg"
    /\ UNCHANGED <<drv, result, dev, mnt, fstab, legacy, sb, sleeps, othersSB, clean>>

\* if not Path("/mnt/cocalc").is_mount(): mount -o loop image_path exits 0
SB_MountImage ==
    /\ pc = "sb_mountimg"
    /\ IF ~is_mount(mnt, "/mnt/cocalc")
       THEN /\ img[sb.image_path].fstype # ""
            /\ mnt' = [mnt EXCEPT !["/mnt/cocalc"] = sb.image_path]
            /\ ran' = Append(ran, <<"mount -o loop", sb.image_path>>)
       ELSE UNCHANGED <<mnt, ran>>
    /\ pc' = "sb_fstabimg"
    /\ UNCHANGED <<drv, result, dev, img, fstab, legacy, sb, sleeps, othersSB, clean>>

\* update_fstab with the image's line
SB_FstabImage ==
    /\ pc = "sb_fstabimg"
    /\ fstab' = update_fstab(fstab, image_fstab_line(sb.image_path))
    /\ pc' = "sb_legacy"
    /\ UNCHANGED <<drv, result, ran, dev, mnt, img, legacy, sb, sleeps, othersSB, clean>>

\* ensure_legacy_btrfs_link, and the return
SB_Legacy ==
    /\ pc = "sb_legacy"
    /\ legacy' = ensure_legacy_btrfs_link(legacy)
    /\ pc' = "idle"
    /\ result' = "ok"
    /\ UNCHANGED <<drv, ran, dev, mnt, img, fstab, sb, sleeps, othersSB, clean>>

\* the command setup_btrfs is about to run
sb_command(p, s) ==
    CASE p = "sb_fstype" -> <<"lsblk -no FSTYPE", s.data_disk>>
      [] p = "sb_mkfs" -> <<"mkfs.btrfs", s.data_disk>>
      [] p = "sb_mount" -> <<"mount", s.data_disk>>
      [] p = "sb_fstab" -> <<"blkid", s.data_disk>>
      [] p = "sb_truncate" -> <<"truncate", s.image_path>>
      [] p = "sb_mkfsimg" -> <<"mkfs.btrfs", s.image_path>>
      [] OTHER -> <<"mount -o loop", s.image_path>>

\* a required command of setup_btrfs exits non-zero: check_output or run_cmd
\* raises (a mount is only run when /mnt/cocalc is not mounted)
SB_CommandFails ==
    /\ pc \in {"sb_fstype", "sb_mkfs", "sb_mount", "sb_fstab", "sb_truncate",
               "sb_mkfsimg", "sb_mountimg"}
    /\ pc \in {"sb_mount", "sb_mountimg"} => ~is_mount(mnt, "/mnt/cocalc")
    /\ ran' = Append(ran, sb_command(pc, sb))
    /\ pc' = "idle"
    /\ result' = "raised_command"
    /\ UNCHANGED <<drv, dev, mnt, img, fstab, legacy, sb, sleeps, othersSB, clean>>

----------------------------------------------------------------------------
(* The environment file: compute_image_size, substitute_public_ip,         *)
(* write_env, upsert_env.  A line is a sequence of tokens: a key, "=", the  *)
(* tokens of the value.                                                    *)

Digits == <<"0", "1", "2", "3", "4", "5", "6", "7", "8", "9">>

\* int(raw) does not raise ValueError (for strings of digits and letters)
is_int(s) == s # <<>> /\ \A i \in 1..Len(s) : \E k \in 1..Len(Digits) : Digits[k] = s[i]

\* int(raw), for a string of decimal digits
RECURSIVE int(_)
int(s) ==
    IF s = <<>> THEN 0
    ELSE 10 * int(SubSeq(s, 1, Len(s) - 1))
           + ((CHOOSE k \in 1..Len(Digits) : Digits[k] = s[Len(s)]) - 1)

Auto == <<"a", "u", "t", "o">>

\* compute_image_size(cfg), total_gb the size of the root filesystem
compute_image_size(raw, total_gb) ==
    IF raw # <<>> /\ raw # Auto /\ is_int(raw)
    THEN IF int(raw) > 5 THEN int(raw) ELSE 5
    ELSE LET target == total_gb - 15
         IN  IF target < 5 THEN 5 ELSE target

\* any("$PUBLIC_IP" in line for line in cfg.env_lines)
needs_public_ip(lines) ==
    \E i \in 1..Len(lines) : \E j \in 1..Len(lines[i]) : lines[i][j] = "$PUBLIC_IP"

\* substitute_public_ip: cfg.env_lines afterwards; public_ip is "" when
\* detect_public_ip returned None
substitute_public_ip(lines, public_ip) ==
    IF ~needs_public_ip(lines) \/ public_ip = "" THEN lines
    ELSE [i \in 1..Len(lines) |->
            [j \in 1..Len(lines[i]) |->
                IF lines[i][j] = "$PUBLIC_IP" THEN public_ip ELSE lines[i][j]]]

\* an upsert that appends its line whatever the file holds
upsert_env_append(f, key, value) ==
    File(join(Append(IF f.exists THEN splitlines(f.text) ELSE <<>>,
                     <<key, "=", value>>)) \o <<NL>>)

\* upsert_env(path, key, value): the new content of the file
upsert_env(f, key, value) ==
    LET lines == IF f.exists THEN splitlines(f.text) ELSE <<>>
        found == \E i \in 1..Len(lines) : StartsWith(lines[i], <<key, "=">>)
        new_lines == [i \in 1..Len(lines) |->
                        IF StartsWith(lines[i], <<key, "=">>)
                        THEN <<key, "=", value>> ELSE lines[i]]
    IN  File(join(IF found THEN new_lines ELSE Append(new_lines, <<key, "=", value>>))
               \o <<NL>>)

\* pwd.getpwnam(user) does not raise KeyError
user_known(user, exists) == user = "root" \/ exists

\* pwd.getpwnam(user).pw_uid
uid_of(user, h) == IF user = "root" THEN 0 ELSE h.uid

\* write_env, the file as Path.write_text leaves it
env_base(c, public_ip) ==
    File(join(substitute_public_ip(c.env_lines, public_ip)) \o <<NL>>)

\* write_env(cfg, image_size_gb): the environment file afterwards
write_env(c, h, public_ip, size_gb) ==
    LET base == env_base(c, public_ip)
        with_dir ==
            IF c.ssh_user # ""
            THEN upsert_env(base, "COCALC_PODMAN_RUNTIME_DIR",
                            "/mnt/cocalc/data/tmp/cocalc-podman-runtime-"
                                \o ToString(uid_of(c.ssh_user, h)))
            ELSE base
    IN  IF c.image_size_gb_raw = Auto
        THEN upsert_env(with_dir, "COCALC_BTRFS_IMAGE_GB", ToString(size_gb))
        ELSE with_dir

----------------------------------------------------------------------------
(* The storage-growth helper: the cocalc-grow-btrfs script that             *)
(* install_btrfs_helper writes.  Sizes are in GiB; a target is the string   *)
(* given as $1.                                                             *)

\* the largest image size and target considered
MaxTargetGb == 64

IsDigit(c) == \E k \in 1..Len(Digits) : Digits[k] = c

\* ${TARGET_GB%%[!0-9]*}: the digits before the first character that is none
RECURSIVE digits_prefix(_)
digits_prefix(s) ==
    IF s = <<>> \/ ~IsDigit(s[1]) THEN <<>>
    ELSE <<s[1]>> \o digits_prefix(Tail(s))

\* the characters of a string, as one token of a text
RECURSIVE Flat(_)
Flat(s) == IF s = <<>> THEN "" ELSE s[1] \o Flat(Tail(s))

\* the decimal numeral of n
RECURSIVE Dec(_)
Dec(n) == IF n < 10 THEN <<Digits[n + 1]>> ELSE Dec(n \div 10) \o <<Digits[(n % 10) + 1]>>

\* $((TARGET_GB * 1024 * 1024 * 1024)) in GiB: bash reads a numeral with a
\* leading 0 as octal, and fails (-1) on the digits 8 and 9 in it
RECURSIVE octal(_)
octal(s) ==
    IF s = <<>> THEN 0
    ELSE 8 * octal(SubSeq(s, 1, Len(s) - 1))
           + ((CHOOSE k \in 1..Len(Digits) : Digits[k] = s[Len(s)]) - 1)

bash_arith(s) ==
    IF Len(s) > 1 /\ s[1] = "0"
    THEN IF \E i \in 1..Len(s) : s[i] \in {"8", "9"} THEN -1 ELSE octal(s)
    ELSE int(s)

\* the values of $1 the helper is given
GrowArgs ==
    {<<>>, <<"3">>, <<"3", "0">>, <<"6", "0">>, <<"3", "0", "G">>, <<"x">>,
     <<"0", "4", "0">>, <<"0", "8">>}

\* the numerals a value of the environment file can be
Numerals == {digits_prefix(a) : a \in GrowArgs} \cup {Dec(n) : n \in 0..MaxTargetGb}

\* the characters of a value read from the environment file; <<"?">> for a
\* value that does not match ^[0-9]+$
token_digits(tok) ==
    IF \E t \in Numerals : t # <<>> /\ Flat(t) = tok
    THEN CHOOSE t \in Numerals : t # <<>> /\ Flat(t) = tok
    ELSE IF tok = "" THEN <<>> ELSE <<"?">>

\* grep -E '^COCALC_BTRFS_IMAGE_GB=' "$ENV_FILE" | tail -n1 | cut -d= -f2
env_target(f) ==
    LET lines == SelectSeq(splitlines(f.text),
                           LAMBDA l : StartsWith(l, <<"COCALC_BTRFS_IMAGE_GB", "=">>))
    IN  IF lines = <<>> THEN ""
        ELSE IF Len(lines[Len(lines)]) < 3 THEN "" ELSE lines[Len(lines)][3]

\* the helper's update of the environment file: sed on the lines of the key,
\* or a line appended with echo
grow_env(f, tok) ==
    LET lines == splitlines(f.text)
        line == <<"COCALC_BTRFS_IMAGE_GB", "=", tok>>
        has == \E i \in 1..Len(lines) : StartsWith(lines[i], <<"COCALC_BTRFS_IMAGE_GB", "=">>)
        ended == f.text # <<>> /\ f.text[Len(f.text)] = NL
    IN  IF has
        THEN File(join([i \in 1..Len(lines) |->
                          IF StartsWith(lines[i], <<"COCALC_BTRFS_IMAGE_GB", "=">>)
                          THEN line ELSE lines[i]])
                  \o (IF ended THEN <<NL>> ELSE <<>>))
        ELSE File(f.text \o line \o <<NL>>)

\* a helper that sets the image to the target whenever the sizes differ
needs_grow_differs(current_gb, target_gb) == current_gb # target_gb

\* [ "$CURRENT_BYTES" -lt "$TARGET_BYTES" ]
needs_grow(current_gb, target_gb) == current_gb < target_gb

\* cocalc-grow-btrfs "$arg": its exit status, the environment file and the
\* images afterwards, and the commands it ran on the image and the
\* filesystem.  The source of a loop mount is a /dev/loop device.
grow_btrfs(as_root, arg, f, m, im, truncate_ok) ==
    LET image == choose_image(im)
        arg_gb == digits_prefix(arg)
        f1 == IF arg_gb # <<>> /\ f.exists THEN grow_env(f, Flat(arg_gb)) ELSE f
        source == m["/mnt/cocalc"]
        target == IF arg_gb = <<>> /\ f1.exists THEN token_digits(env_target(f1))
                  ELSE arg_gb
        resize == <<"btrfs filesystem resize max", "/mnt/cocalc">>
        Out(status, file, images, cmds) ==
            [status |-> status, envfile |-> file, img |-> images, ran |-> cmds]
    IN  IF ~as_root THEN Out(1, f, im, <<>>)
        ELSE IF source = "none" THEN Out(0, f1, im, <<>>)
        ELSE IF source \notin ImagePaths THEN Out(0, f1, im, <<resize>>)
        ELSE IF ~im[image].exists THEN Out(0, f1, im, <<>>)
        ELSE IF target = <<>> \/ ~is_int(target) THEN Out(0, f1, im, <<>>)
        ELSE IF bash_arith(target) = -1 THEN Out(1, f1, im, <<>>)
        ELSE IF needs_grow(im[image].size_gb, bash_arith(target))
             THEN IF truncate_ok
                  THEN Out(0, f1, [im EXCEPT ![image].size_gb = int(target)],
                           <<<<"truncate", image>>, resize>>)
                  ELSE Out(1, f1, im, <<<<"truncate", image>>>>)
             ELSE Out(0, f1, im, <<resize>>)

\* the runtime user (through sudo) or another user runs the helper on a host
\* that main has bootstrapped without any failure; `result` is its exit
\* status, `ran` its argument, the environment file and the images as they
\* were, and its commands
Grow_Helper ==
    /\ pc = "idle"
    /\ phase = 0
    /\ run > 0
    /\ exit = "0"
    /\ clean
    /\ calls < MaxCalls
    /\ calls' = calls + 1
    /\ \E as_root \in BOOLEAN, arg \in GrowArgs, truncate_ok \in BOOLEAN :
          LET g == grow_btrfs(as_root, arg, envfile, mnt, img, truncate_ok)
          IN  /\ result' = IF g.status = 0 THEN "exit0" ELSE "exit1"
              /\ envfile' = g.envfile
              /\ img' = g.img
              /\ ran' = <<[helper |-> "cocalc-grow-btrfs", as_root |-> as_root, arg |-> arg,
                           envfile |-> envfile, img |-> img, cmds |-> g.ran]>>
    /\ UNCHANGED <<pc, clean, phase, run, exit, image_size_gb, snap, prevClean, invVars,
                   bundleVars, aptVars, cfg, host, startVars, dev, mnt, fstab, legacy,
                   sb, sleeps, userExists>>

----------------------------------------------------------------------------
(* The secrets provisioner: setup_master_conat_token.  `ran` records the    *)
(* operations of the running call: the two fetches, chown and chmod with    *)
(* whether they took effect.                                                *)

\* what the steps of setup_master_conat_token leave alone
othersMT == <<bundleVars, aptVars, cfg, host, startVars, diskVars, envfile, userExists,
              phase, run, exit, image_size_gb, snap, prevClean,
              only, trace, markers, paths, rawdoc>>

\* cfg.conat_url and cfg.bootstrap_token are both set
token_configured(c) == c.conat_url # "" /\ c.bootstrap_token # ""

\* a provisioner that never finds the secret file
token_present_never(s) == FALSE

\* path.exists()
token_present(s) == s.exists

\* cfg.ssh_user and cfg.ssh_user != "root"
chown_wanted(c) == c.ssh_user # "" /\ c.ssh_user # "root"

\* the file a fetch writes: the process's owner and default mode
FetchedFile(data) == [exists |-> TRUE, data |-> data, mode |-> "0644", owner |-> "root"]

\* setup_master_conat_token(cfg): entry
MT_Call ==
    /\ pc = "idle"
    /\ pc' = "mt_check"
    /\ result' = "none"
    /\ ran' = <<>>
    /\ mt' = [pre |-> secret]
    /\ UNCHANGED <<logged, secret, clean, othersMT>>

\* the two guards: nothing configured, or the file is already there
MT_Check ==
    /\ pc = "mt_check"
    /\ IF ~token_configured(cfg)
       THEN /\ pc' = "idle"
            /\ result' = "ok"
            /\ UNCHANGED logged
       ELSE IF token_present(secret)
       THEN /\ pc' = "mt_present_chown"
            /\ logged' = Append(logged, "bootstrap: master conat token already present")
            /\ UNCHANGED result
       ELSE /\ pc' = "mt_urlopen"
            /\ logged' = Append(logged, "bootstrap: fetching master conat token")
            /\ UNCHANGED result
    /\ UNCHANGED <<calls, ran, secret, mt, clean, othersMT>>

\* file present: the best-effort chown to the runtime user
MT_PresentChown ==
    /\ pc = "mt_present_chown"
    /\ IF chown_wanted(cfg)
       THEN \E ok \in BOOLEAN :
               /\ secret' = IF ok THEN [secret EXCEPT !.owner = cfg.ssh_user] ELSE secret
               /\ ran' = Append(ran, <<"chown", ok>>)
               /\ clean' = (clean /\ ok)
       ELSE UNCHANGED <<secret, ran, clean>>
    /\ pc' = "mt_present_chmod"
    /\ UNCHANGED <<calls, result, logged, mt, othersMT>>

\* file present: os.chmod(path, 0o600), any exception passed over; return
MT_PresentChmod ==
    /\ pc = "mt_present_chmod"
    /\ \E ok \in BOOLEAN :
          /\ secret' = IF ok THEN [secret EXCEPT !.mode = "0600"] ELSE secret
          /\ ran' = Append(ran, <<"chmod", ok>>)
          /\ clean' = (clean /\ ok)
    /\ pc' = "idle"
    /\ result' = "ok"
    /\ UNCHANGED <<calls, logged, mt, othersMT>>

\* urllib.request.urlopen and path.write_bytes(data): done, or an exception
\* before anything is written, or one after the file was created
MT_Urlopen ==
    /\ pc = "mt_urlopen"
    /\ \E outcome \in {"ok", "failed", "write_failed"} :
          /\ secret' = CASE outcome = "ok" -> FetchedFile(host.token)
                         [] outcome = "write_failed" -> FetchedFile("")
                         [] OTHER -> secret
          /\ pc' = IF outcome = "ok" THEN "mt_chmod" ELSE "mt_curl"
          /\ logged' = IF outcome = "ok" THEN logged
                       ELSE Append(logged, "bootstrap: master-conat-token fetch failed via urllib")
          /\ clean' = (clean /\ outcome = "ok")
    /\ ran' = Append(ran, <<"urlopen", TRUE>>)
    /\ UNCHANGED <<calls, result, mt, othersMT>>

\* the fallback: re-raise without curl, else curl -fsSL -o path, which
\* writes the file, or fails before or after it started writing
MT_Curl ==
    /\ pc = "mt_curl"
    /\ IF ~host.curl
       THEN /\ pc' = "idle"
            /\ result' = "raised_fetch"
            /\ UNCHANGED <<secret, ran, clean>>
       ELSE \E outcome \in {"ok", "failed", "partial"} :
               /\ secret' = CASE outcome = "ok" -> FetchedFile(host.token)
                              [] outcome = "partial" -> FetchedFile("")
                              [] OTHER -> secret
               /\ pc' = IF outcome = "ok" THEN "mt_chmod" ELSE "idle"
               /\ result' = IF outcome = "ok" THEN result ELSE "raised_command"
               /\ ran' = Append(ran, <<"curl", TRUE>>)
               /\ clean' = (clean /\ outcome = "ok")
    /\ UNCHANGED <<calls, logged, mt, othersMT>>

\* os.chmod(path, 0o600) after the fetch
MT_Chmod ==
    /\ pc = "mt_chmod"
    /\ secret' = [secret EXCEPT !.mode = "0600"]
    /\ ran' = Append(ran, <<"chmod", TRUE>>)
    /\ pc' = "mt_chown"
    /\ UNCHANGED <<calls, result, logged, mt, clean, othersMT>>

\* the best-effort chown after the fetch; return
MT_Chown ==
    /\ pc = "mt_chown"
    /\ IF chown_wanted(cfg)
       THEN \E ok \in BOOLEAN :
               /\ secret' = IF ok THEN [secret EXCEPT !.owner = cfg.ssh_user] ELSE secret
               /\ ran' = Append(ran, <<"chown", ok>>)
               /\ clean' = (clean /\ ok)
       ELSE UNCHANGED <<secret, ran, clean>>
    /\ pc' = "idle"
    /\ result' = "ok"
    /\ UNCHANGED <<calls, logged, mt, othersMT>>

----------------------------------------------------------------------------
(* The configuration loader: load_config.  The JSON document is modelled   *)
(* by the kind of value each field holds; a bundle's fields are named      *)
(* "<bundle>.<field>".                                                      *)

\* kinds of JSON values; "absent" is a key the document does not have
Kinds == {"absent", "null", "str", "empty_str", "zero", "int", "true", "false",
          "list", "empty_list", "dict", "empty_dict"}

\* bool(value)
truthy(k) == k \in {"str", "int", "true", "list", "dict"}

BundleFields == <<"url", "remote", "root", "dir", "current">>

\* the checks of the fields of one bundle, after the first .get on it
bundle_checks(b) ==
    <<[field |-> b, how |-> "get", of |-> ""]>> \o
    [i \in 1..Len(BundleFields) |->
        [field |-> b \o "." \o BundleFields[i], how |-> "str", of |-> b]]

\* the checks load_config makes, in the order the arguments of
\* BootstrapConfig(...) are evaluated
Checks ==
    [i \in 1..9 |->
        [field |-> <<"bootstrap_user", "bootstrap_home", "bootstrap_root",
                     "bootstrap_dir", "bootstrap_tmp", "log_file", "expected_os",
                     "expected_arch", "image_size_gb_raw">>[i],
         how |-> "str", of |-> ""]] \o
    <<[field |-> "data_disk_devices", how |-> "str_or_empty", of |-> ""],
      [field |-> "data_disk_candidates", how |-> "str_or_empty", of |-> ""],
      [field |-> "apt_packages", how |-> "list", of |-> ""],
      [field |-> "has_gpu", how |-> "bool", of |-> ""],
      [field |-> "ssh_user", how |-> "str", of |-> ""],
      [field |-> "env_file", how |-> "str", of |-> ""],
      [field |-> "env_lines", how |-> "list", of |-> ""],
      [field |-> "node_version", how |-> "str", of |-> ""]>> \o
    bundle_checks("project_host_bundle") \o
    bundle_checks("project_bundle") \o
    bundle_checks("tools_bundle") \o
    <<[field |-> "cloudflared", how |-> "get", of |-> ""],
      [field |-> "cloudflared.enabled", how |-> "bool", of |-> "cloudflared"],
      [field |-> "bootstrap_done_paths", how |-> "list", of |-> ""]>>

DocFields == {Checks[i].field : i \in 1..Len(Checks)}

\* raw.get(name), or (raw.get(parent) or {}).get(name)
doc_get(doc, c) ==
    IF c.of # "" /\ ~truthy(doc[c.of]) THEN "absent" ELSE doc[c.field]

\* what one check raises, "" when it passes: _ensure_str, _ensure_list,
\* _ensure_bool, and the attribute access on a value that is not a dict
check_error(doc, c) ==
    LET k == doc_get(doc, c)
    IN  CASE c.how = "str" ->
                 IF k \in {"str", "empty_str"} THEN "" ELSE c.field \o " missing or invalid"
          [] c.how = "str_or_empty" ->
                 IF ~truthy(k) \/ k = "str" THEN "" ELSE c.field \o " missing or invalid"
          [] c.how = "list" ->
                 IF k \in {"list", "empty_list"} THEN "" ELSE c.field \o " must be list"
          [] c.how = "bool" ->
                 IF k \in {"absent", "null", "true", "false"} THEN ""
                 ELSE c.field \o " must be boolean"
          [] OTHER ->
                 IF ~truthy(k) \/ k = "dict" THEN ""
                 ELSE "AttributeError: object has no attribute 'get'"

\* load_config(path): the message of the exception it raises, "" when it
\* returns the BootstrapConfig
load_config(doc) ==
    LET failing == {i \in 1..Len(Checks) : check_error(doc, Checks[i]) # ""}
    IN  IF failing = {} THEN ""
        ELSE check_error(doc, Checks[CHOOSE i \in failing : \A j \in failing : i <= j])

\* a document load_config accepts
GoodDoc ==
    [f \in DocFields |->
        CASE f \in {"apt_packages", "env_lines", "bootstrap_done_paths"} -> "list"
          [] f \in {"project_host_bundle", "project_bundle", "tools_bundle"} -> "dict"
          [] f = "cloudflared" -> "absent"
          [] f = "cloudflared.enabled" -> "absent"
          [] f = "has_gpu" -> "false"
          [] OTHER -> "str"]

----------------------------------------------------------------------------
(* States of the parts a specification does not exercise *)

NoCfg ==
    [dir |-> [b \in Bundles |-> 1],
     sha256 |-> [b \in Bundles |-> <<>>],
     devices |-> <<>>,
     env_lines |-> <<>>,
     image_size_gb_raw |-> <<>>,
     ssh_user |-> "",
     conat_url |-> "",
     bootstrap_token |-> "",
     bootstrap_user |-> "",
     expected_os |-> "linux",
     expected_arch |-> "amd64",
     has_gpu |-> FALSE,
     log_file |-> "/var/log/cocalc/bootstrap.log",
     cloudflared |-> [enabled |-> FALSE, token |-> "", tunnel_id |-> "",
                      creds_json |-> ""]]

\* a host whose bundle URLs can serve any archive
NoHost ==
    [serves |-> [b \in Bundles |-> Archives],
     root_gb |-> 0,
     public_ip |-> "",
     uid |-> 0,
     curl |-> TRUE,
     token |-> "token",
     sysname |-> "Linux",
     machine |-> "x86_64",
     visudo |-> "accepts"]

NoSnap == [fstab |-> AbsentFile, envfile |-> AbsentFile,
           current |-> [b \in Bundles |-> NoCurrent]]

EnvIdle ==
    /\ envfile = AbsentFile
    /\ userExists = FALSE

\* the done markers main is configured to touch
DonePaths == {"/var/lib/cocalc/bootstrap.done", "/home/cocalc/.bootstrap_done"}

NoPaths == [logdir |-> FALSE, bootstrap |-> FALSE, owner |-> "root",
            made |-> {}, sudoers |-> {},
            tunnel |-> [tunnel |-> "", credentials_file |-> ""]]
NoSecret == [exists |-> FALSE, data |-> "", mode |-> "none", owner |-> "none"]
NoMt == [pre |-> NoSecret]

SideIdle ==
    /\ markers = [p \in DonePaths |-> FALSE]
    /\ paths = NoPaths
    /\ secret = NoSecret
    /\ mt = NoMt
    /\ rawdoc = GoodDoc

DiskIdle ==
    /\ dev = [d \in Devs |-> [exists |-> FALSE, size |-> 0, fstype |-> "", gen |-> 0]]
    /\ mnt = [m \in Mountpoints |-> "none"]
    /\ img = [p \in ImagePaths |-> [exists |-> FALSE, fstype |-> "", size_gb |-> 0]]
    /\ fstab = AbsentFile
    /\ legacy = "none"
    /\ sb = NoSb
    /\ sleeps = 0

BundleIdle ==
    /\ dirs = [b \in Bundles |-> [d \in VersionDirs |-> AbsentDir]]
    /\ current = [b \in Bundles |-> NoCurrent]
    /\ remote = [b \in Bundles |-> 0]
    /\ root = [b \in Bundles |-> FALSE]
    /\ eb = NoBundle
    /\ pre = NoPre
    /\ deployed = [b \in Bundles |-> FALSE]

AptIdle ==
    /\ ar = NoApt
    /\ runs = 0
    /\ slept = <<>>

StartIdle ==
    /\ wrapper = FALSE
    /\ daemon = "stopped"

CtlInit ==
    /\ pc = "idle"
    /\ result = "none"
    /\ calls = 0
    /\ ran = <<>>
    /\ phase = 0
    /\ run = 0
    /\ exit = "none"
    /\ image_size_gb = 0
    /\ snap = NoSnap
    /\ prevClean = FALSE
    /\ clean = TRUE
    /\ only = {}
    /\ trace = <<>>
    /\ logged = <<>>

----------------------------------------------------------------------------
(* The bundle deployer on its own: any sequence of deployments of the      *)
(* project-host bundle, into any version directory, with any checksum      *)
(* configuration, starting from a host where nothing is deployed.          *)

InitBundle ==
    /\ CtlInit
    /\ EnvIdle
    /\ SideIdle
    /\ host = NoHost
    /\ AptIdle
    /\ StartIdle
    /\ DiskIdle
    /\ cfg = NoCfg
    /\ dirs = [b \in Bundles |-> [d \in VersionDirs |-> AbsentDir]]
    /\ \E c \in {NoCurrent, FileCurrent, DirCurrent} \cup {LinkTo(d) : d \in VersionDirs} :
          current = [b \in Bundles |-> IF b = "project_host_bundle" THEN c ELSE NoCurrent]
    /\ remote = [b \in Bundles |-> 0]
    /\ root = [b \in Bundles |-> FALSE]
    /\ eb = NoBundle
    /\ pre = NoPre
    /\ deployed = [b \in Bundles |-> FALSE]

\* one invocation deploying the project-host bundle as its configuration says
DeployCall ==
    /\ calls < MaxCalls
    /\ calls' = calls + 1
    /\ UNCHANGED mainVars
    /\ \E d \in VersionDirs, sha \in ShaConfigs : EB_Call("project_host_bundle", d, sha)

NextBundle ==
    \/ DeployCall
    \/ EB_Download
    \/ EB_DownloadFails
    \/ EB_Verify
    \/ EB_RmTree
    \/ EB_RmTreeDone
    \/ EB_MkDir
    \/ EB_TarRuns
    \/ EB_TarDone
    \/ EB_TarFails
    \/ EB_RemoveCurrent
    \/ EB_Symlink
    \/ EB_Killed

SpecBundle == InitBundle /\ [][NextBundle]_vars

----------------------------------------------------------------------------
(* The retry policy on its own: calls of apt_run with any description and  *)
(* any number of retries, every attempt failing or succeeding.             *)

InitApt ==
    /\ CtlInit
    /\ EnvIdle
    /\ SideIdle
    /\ host = NoHost
    /\ BundleIdle
    /\ AptIdle
    /\ StartIdle
    /\ DiskIdle
    /\ cfg = NoCfg

AptCall ==
    /\ calls < MaxCalls
    /\ calls' = calls + 1
    /\ UNCHANGED mainVars
    /\ \E desc \in AptDescs, retries \in 0..MaxRetries : Apt_Call(desc, retries)

NextApt ==
    \/ AptCall
    \/ Apt_RunOk
    \/ Apt_RunFails
    \/ Apt_Sleep

SpecApt == InitApt /\ [][NextApt]_vars

----------------------------------------------------------------------------
(* The service start on its own, on a host whose project-host bundle is in *)
(* any state a deployment can leave it in.                                 *)

DirOptions ==
    {AbsentDir} \cup {FullDir(a) : a \in Archives}
                \cup UNION {PartialDirs(a) : a \in Archives}

InitStart ==
    /\ CtlInit
    /\ EnvIdle
    /\ SideIdle
    /\ host = NoHost
    /\ AptIdle
    /\ DiskIdle
    /\ remote = [b \in Bundles |-> 0]
    /\ root = [b \in Bundles |-> TRUE]
    /\ eb = NoBundle
    /\ pre = NoPre
    /\ deployed = [b \in Bundles |-> FALSE]
    /\ \E d0 \in VersionDirs, own \in DirOptions, other \in DirOptions,
          c \in {NoCurrent} \cup {LinkTo(d) : d \in VersionDirs} :
          /\ cfg = [NoCfg EXCEPT !.dir = [b \in Bundles |-> d0]]
          /\ dirs = [b \in Bundles |->
                       IF b = "project_host_bundle"
                       THEN [d \in VersionDirs |-> IF d = d0 THEN own ELSE other]
                       ELSE [d \in VersionDirs |-> AbsentDir]]
          /\ current = [b \in Bundles |->
                          IF b = "project_host_bundle" THEN c ELSE NoCurrent]
    /\ wrapper \in BOOLEAN
    /\ daemon \in {"stopped", "running"}

StartCall ==
    /\ calls < MaxCalls
    /\ calls' = calls + 1
    /\ UNCHANGED mainVars
    /\ SP_Call

NextStart ==
    \/ StartCall
    \/ SP_Check
    \/ SP_Stop
    \/ SP_StopRaises
    \/ SP_Start
    \/ SP_StartFails

SpecStart == InitStart /\ [][NextStart]_vars

----------------------------------------------------------------------------
(* Storage setup on its own: calls of setup_btrfs on a host with two       *)
(* candidate devices in any configured order, each absent, blank, too      *)
(* small, carrying btrfs or carrying a foreign filesystem, with            *)
(* /mnt/cocalc, the legacy /btrfs or another mountpoint possibly mounted.  *)

DeviceLists ==
    {<<>>} \cup {<<d>> : d \in Devs}
           \cup {<<d, e>> : <<d, e>> \in {x \in Devs \X Devs : x[1] # x[2]}}

DevProfiles ==
    {[exists |-> FALSE, size |-> 10240, fstype |-> "", gen |-> 0],
     [exists |-> TRUE, size |-> 10240, fstype |-> "", gen |-> 0],
     [exists |-> TRUE, size |-> 10239, fstype |-> "", gen |-> 0],
     [exists |-> TRUE, size |-> 10240, fstype |-> "btrfs", gen |-> 0],
     [exists |-> TRUE, size |-> 10240, fstype |-> "ext4", gen |-> 0]}

NoImage == [exists |-> FALSE, fstype |-> "", size_gb |-> 0]
OldImage == [exists |-> TRUE, fstype |-> "btrfs", size_gb |-> 20]

ImageInits ==
    {[p \in ImagePaths |-> NoImage],
     [p \in ImagePaths |-> IF p = "/var/lib/cocalc/cocalc.img" THEN OldImage ELSE NoImage],
     [p \in ImagePaths |-> IF p = "/var/lib/cocalc/btrfs.img" THEN OldImage ELSE NoImage]}

RootLine == <<"UUID=root", " ", "/", " ", "ext4 defaults 0 1">>
LegacyLine == <<"/var/lib/cocalc/btrfs.img", " ", "/btrfs", " ", "btrfs loop 0 0">>

\* /etc/fstab before the first call: missing, or the system's lines, with or
\* without entries of an earlier provisioning, the last line unterminated
FstabInits ==
    {AbsentFile,
     File(RootLine \o <<NL>>),
     File(image_fstab_line("/var/lib/cocalc/cocalc.img") \o <<NL>> \o RootLine \o <<NL>>
            \o LegacyLine)}

\* mount tables the host can have: a source is an existing device or image
\* with a filesystem; a legacy host has /btrfs mounted and nothing else
MountInits(dv, im) ==
    LET fsdevs == {d \in Devs : dv[d].exists /\ dv[d].fstype # ""}
        btrdevs == {d \in Devs : dv[d].exists /\ dv[d].fstype = "btrfs"}
        images == {p \in ImagePaths : im[p].exists}
    IN  {m \in [Mountpoints -> {"none"} \cup Devs \cup ImagePaths] :
            /\ m["/mnt/cocalc"] \in {"none"} \cup btrdevs \cup images
            /\ m["/other"] \in {"none"} \cup (fsdevs \ {m["/mnt/cocalc"]})
            /\ m["/btrfs"] \in {"none"} \cup btrdevs \cup images
            /\ m["/btrfs"] # "none" => m["/mnt/cocalc"] = "none" /\ m["/other"] = "none"}

\* Two families of hosts: hosts with configured candidate devices in every
\* combination of device states and mounts, and hosts without configured
\* devices in every combination of image files, mounts and fstab contents.
InitDisk ==
    /\ CtlInit
    /\ EnvIdle
    /\ SideIdle
    /\ host = NoHost
    /\ BundleIdle
    /\ AptIdle
    /\ StartIdle
    /\ \/ /\ \E dl \in DeviceLists \ {<<>>} : cfg = [NoCfg EXCEPT !.devices = dl]
          /\ dev \in [Devs -> DevProfiles]
          /\ img = [p \in ImagePaths |-> NoImage]
          /\ fstab = File(RootLine \o <<NL>> \o LegacyLine)
          /\ mnt \in MountInits(dev, img)
          /\ legacy = IF mnt["/btrfs"] # "none" THEN "dir" ELSE "none"
       \/ /\ cfg = NoCfg
          /\ dev = [d \in Devs |-> [exists |-> FALSE, size |-> 10240, fstype |-> "", gen |-> 0]]
          /\ img \in ImageInits
          /\ fstab \in FstabInits
          /\ mnt \in MountInits(dev, img)
          /\ legacy \in IF mnt["/btrfs"] # "none" THEN {"dir"} ELSE {"none", "link_other"}
    /\ sb = NoSb
    /\ sleeps = 0

DiskCall ==
    /\ calls < MaxCalls
    /\ calls' = calls + 1
    /\ UNCHANGED mainVars
    /\ SB_Call(20)

NextDisk ==
    \/ DiskCall
    \/ SB_Bind
    \/ SB_Poll
    \/ SB_Sleep
    \/ SB_DiskAttached
    \/ SB_Fstype
    \/ SB_Mkfs
    \/ SB_Mount
    \/ SB_Fstab
    \/ SB_Image
    \/ SB_Truncate
    \/ SB_MkfsImage
    \/ SB_MountImage
    \/ SB_FstabImage
    \/ SB_Legacy
    \/ SB_CommandFails

SpecDisk == InitDisk /\ [][NextDisk]_vars

\* setup_btrfs runs to its end: a poll or a sleep that can happen does
SpecDiskFair == SpecDisk /\ WF_vars(SB_Poll) /\ WF_vars(SB_Sleep)

----------------------------------------------------------------------------
(* The secrets provisioner on its own: calls of setup_master_conat_token     *)
(* with the token configured or not, any runtime user, with or without     *)
(* curl, on a host where the secret file is missing or was written before. *)

SecretInits ==
    {NoSecret} \cup
    {[exists |-> TRUE, data |-> "old-token", mode |-> m, owner |-> o] :
        m \in {"0600", "0644"}, o \in {"root", "cocalc", "nobody"}}

InitSecret ==
    /\ CtlInit
    /\ EnvIdle
    /\ BundleIdle
    /\ AptIdle
    /\ StartIdle
    /\ DiskIdle
    /\ \E url \in {"", "https://hub/token"}, tok \in {"", "bearer"},
          user \in {"", "root", "cocalc"} :
          cfg = [NoCfg EXCEPT !.conat_url = url, !.bootstrap_token = tok,
                              !.ssh_user = user]
    /\ \E c \in BOOLEAN : host = [NoHost EXCEPT !.curl = c]
    /\ markers = [p \in DonePaths |-> FALSE]
    /\ paths = NoPaths
    /\ secret \in SecretInits
    /\ mt = NoMt
    /\ rawdoc = GoodDoc

SecretCall ==
    /\ calls < MaxCalls
    /\ calls' = calls + 1
    /\ MT_Call

NextSecret ==
    \/ SecretCall
    \/ MT_Check
    \/ MT_PresentChown
    \/ MT_PresentChmod
    \/ MT_Urlopen
    \/ MT_Curl
    \/ MT_Chmod
    \/ MT_Chown

SpecSecret == InitSecret /\ [][NextSecret]_vars

----------------------------------------------------------------------------
(* The orchestrator: main.                                                 *)

\* the calls of main's full sequence, in order
Phases ==
    <<"ensure_bootstrap_paths", "ensure_platform", "compute_image_size",
      "disable_unattended", "apt_update_install", "install_gpu_support",
      "configure_chrony", "enable_userns", "ensure_runtime_user", "ensure_subuids",
      "enable_linger", "prepare_dirs", "setup_btrfs", "install_btrfs_helper",
      "ensure_btrfs_data", "configure_podman", "write_env",
      "setup_master_conat_token", "project_host_bundle", "project_bundle",
      "tools_bundle", "install_node", "write_wrapper", "write_helpers",
      "configure_runtime_sudoers", "configure_cloudflared", "configure_autostart",
      "start_project_host", "reenable_unattended", "touch_paths">>

\* str.lower() of the words the model uses
lower_word(w) ==
    CASE w = "Linux" -> "linux"
      [] w = "Darwin" -> "darwin"
      [] w = "Project_Bundle" -> "project_bundle"
      [] w = "TOOLS_BUNDLE" -> "tools_bundle"
      [] OTHER -> w

\* the value of --only: the parts between commas, each a sequence of
\* spaces and words; NoArg when the option is not given
NoArg == <<>>

\* parse_only(arg): the set of names selected, {} for None
parse_only(arg) ==
    LET parts == SelectSeq([i \in 1..Len(arg) |-> strip(arg[i])], LAMBDA q : q # <<>>)
    IN  {lower_word(parts[i][1]) : i \in 1..Len(parts)}

\* a full sequence that deploys the bundles before the storage is set up
main_steps_deploy_first(sel) ==
    IF sel = {}
    THEN SubSeq(Phases, 1, 12) \o SubSeq(Phases, 19, 21) \o SubSeq(Phases, 13, 18)
         \o SubSeq(Phases, 22, Len(Phases))
    ELSE <<"ensure_bootstrap_paths">>

\* a subset run that deploys every bundle whatever is selected
main_steps_all(sel) ==
    IF sel = {} THEN Phases
    ELSE <<"ensure_bootstrap_paths", "project_host_bundle", "write_wrapper",
           "write_helpers", "project_bundle", "tools_bundle">>

\* the calls main makes, in order, when `only` is sel
main_steps(sel) ==
    IF sel = {} THEN Phases
    ELSE <<"ensure_bootstrap_paths">>
         \o (IF "project_host_bundle" \in sel
             THEN <<"project_host_bundle", "write_wrapper", "write_helpers">> ELSE <<>>)
         \o (IF "project_bundle" \in sel THEN <<"project_bundle">> ELSE <<>>)
         \o (IF "tools_bundle" \in sel THEN <<"tools_bundle">> ELSE <<>>)

\* the call main is in, "return" after the last
phase_name ==
    IF phase \in 1..Len(main_steps(only)) THEN main_steps(only)[phase]
    ELSE IF phase = Len(main_steps(only)) + 1 THEN "return" ELSE "none"

----------------------------------------------------------------------------
(* Helper scripts, the runtime sudoers fragment and the optional features *)

\* write_helpers(cfg): the scripts written to the runtime root's bin directory
\* (the admin root, when it is another directory, gets wrappers of the same
\* names)
write_helpers(c) ==
    {"bin/ctl", "bin/start-project-host", "bin/logs", "bin/logs-cf", "bin/ctl-cf",
     "bin/fetch-project-bundle.sh", "bin/fetch-project-host.sh", "bin/fetch-tools.sh"}

\* the commands of Cmnd_Alias COCALC_RUNTIME_STORAGE that are listed with the
\* argument pattern `*`
StorageTools ==
    {"/usr/bin/btrfs", "/sbin/btrfs", "/usr/bin/mkfs.btrfs", "/sbin/mkfs.btrfs",
     "/bin/mount", "/usr/bin/mount", "/bin/umount", "/usr/bin/umount",
     "/usr/sbin/losetup", "/sbin/losetup", "/usr/bin/mknod", "/bin/mknod",
     "/usr/bin/chown", "/bin/chown", "/usr/bin/chmod", "/bin/chmod",
     "/usr/bin/chattr", "/bin/chattr", "/usr/bin/truncate", "/bin/truncate",
     "/usr/bin/mkdir", "/bin/mkdir", "/usr/bin/mv", "/bin/mv",
     "/usr/bin/rm", "/bin/rm", "/usr/bin/df", "/bin/df"}

\* the commands of Cmnd_Alias COCALC_RUNTIME_CLOUD, listed with the argument
\* pattern `* cocalc-cloudflared*`
CloudTools ==
    {"/bin/systemctl", "/usr/bin/systemctl", "/bin/journalctl", "/usr/bin/journalctl"}

\* the path of the storage-growth helper
GrowHelper == "/usr/local/sbin/cocalc-grow-btrfs"

\* configure_runtime_sudoers(cfg): the rules of the fragment it writes for the
\* runtime user, each a command path and the pattern its arguments must match
\* ("any": the pattern `*` or no pattern; "cloudflared": `* cocalc-cloudflared*`)
configure_runtime_sudoers(c) ==
    IF c.ssh_user = "" \/ c.ssh_user = "root" THEN {}
    ELSE {[user |-> c.ssh_user, path |-> GrowHelper, args |-> "any"]}
         \cup {[user |-> c.ssh_user, path |-> t, args |-> "any"] : t \in StorageTools}
         \cup {[user |-> c.ssh_user, path |-> t, args |-> "cloudflared"] : t \in CloudTools}

\* an absent (None) or empty value `or` the alternative
py_or(a, b) == IF a # "" THEN a ELSE b

\* load_config: the CloudflaredSpec built from the `cloudflared` object of
\* the document, an absent key being ""; nothing is required of the token,
\* the tunnel id or the credentials
CloudflaredSpec(doc) ==
    [enabled |-> doc.enabled,
     token |-> doc.token,
     tunnel_id |-> py_or(doc.tunnelId, doc.tunnel_id),
     creds_json |-> py_or(doc.credsJson, doc.creds_json)]

\* f"{tunnel_id}" for an Optional[str]
fmt_opt(x) == IF x = "" THEN "None" ELSE x

\* f"/etc/cloudflared/{cfg.cloudflared.tunnel_id}.json"
creds_path(c) == "/etc/cloudflared/" \o fmt_opt(c.cloudflared.tunnel_id) \o ".json"

\* the tunnel and the credentials file that config.yml names: none when a
\* token is configured
cloudflared_config(c) ==
    IF c.cloudflared.token # ""
    THEN [tunnel |-> "", credentials_file |-> ""]
    ELSE [tunnel |-> fmt_opt(c.cloudflared.tunnel_id), credentials_file |-> creds_path(c)]

\* configure_cloudflared that installs the tunnel whatever the configuration says
configure_cloudflared_always(c) ==
    {"pkg:cloudflared", "/etc/cloudflared/config.yml",
     "/etc/systemd/system/cocalc-cloudflared.service"}
    \cup (IF c.cloudflared.token # "" THEN {"/etc/cloudflared/token.env"} ELSE {})
    \cup (IF c.cloudflared.creds_json # "" THEN {creds_path(c)} ELSE {})

\* configure_cloudflared(cfg): the package it installs and the files it writes
configure_cloudflared(c) ==
    IF ~c.cloudflared.enabled THEN {}
    ELSE {"pkg:cloudflared", "/etc/cloudflared/config.yml",
          "/etc/systemd/system/cocalc-cloudflared.service"}
         \cup (IF c.cloudflared.token # "" THEN {"/etc/cloudflared/token.env"} ELSE {})
         \cup (IF c.cloudflared.creds_json # "" THEN {creds_path(c)} ELSE {})

\* install_gpu_support(cfg): the packages it installs and the files it writes
install_gpu_support(c) ==
    IF ~c.has_gpu THEN {}
    ELSE {"pkg:gnupg", "pkg:nvidia-container-toolkit",
          "/usr/share/keyrings/nvidia-container-toolkit-keyring.gpg",
          "/etc/apt/sources.list.d/nvidia-container-toolkit.list",
          "/usr/local/sbin/cocalc-nvidia-cdi", "/etc/cron.d/cocalc-nvidia-cdi"}

\* the functions of main whose only modelled effect is what they leave in
\* `paths`
HelperPhases ==
    {"install_gpu_support", "write_helpers", "configure_runtime_sudoers",
     "configure_cloudflared"}

\* configure_runtime_sudoers: `visudo -c -f <fragment>` is run, with check=True,
\* when visudo is installed, after the fragment was written and chmod-ed; it
\* raises when visudo rejects the fragment
visudo_raises(c, h) ==
    /\ c.ssh_user # "" /\ c.ssh_user # "root"
    /\ h.visudo = "rejects"

\* how function f of HelperPhases ends
phase_result(f, c, h) ==
    IF f = "configure_runtime_sudoers" /\ visudo_raises(c, h)
    THEN "raised_visudo" ELSE "ok"

\* `paths` after function f of HelperPhases has returned or raised
phase_writes(f, c, p) ==
    CASE f = "install_gpu_support" -> [p EXCEPT !.made = @ \cup install_gpu_support(c)]
      [] f = "write_helpers" -> [p EXCEPT !.made = @ \cup write_helpers(c)]
      [] f = "configure_cloudflared" ->
            [p EXCEPT !.made = @ \cup configure_cloudflared(c),
                      !.tunnel = IF configure_cloudflared(c) = {} THEN @
                                 ELSE cloudflared_config(c)]
      [] f = "configure_runtime_sudoers" ->
            IF c.ssh_user = "" \/ c.ssh_user = "root" THEN p
            ELSE [p EXCEPT !.sudoers = configure_runtime_sudoers(c)]
      [] OTHER -> p

\* an argument that begins with cocalc-cloudflared
CloudflaredWords == {"cocalc-cloudflared", "cocalc-cloudflared.service"}

\* sudoers' match of a command line against a rule's argument pattern: the
\* arguments are joined with spaces and the wildcard matches any characters,
\* spaces included
args_match(pat, args) ==
    CASE pat = "any" -> TRUE
      [] pat = "cloudflared" ->
            \E i \in 2..Len(args) : args[i] \in CloudflaredWords
      [] OTHER -> FALSE

\* sudo -n, asked by `user` to run `path` with `args` as root under the rules
sudo_allows(rules, user, path, args) ==
    \E r \in rules : r.user = user /\ r.path = path /\ args_match(r.args, args)

\* phases made of best-effort commands only: nothing they do raises
BestEffortPhases ==
    {"disable_unattended", "enable_userns", "ensure_subuids", "reenable_unattended"}

\* phases whose effects are outside the modelled state, and that can raise
PlainPhases ==
    {"install_gpu_support",
     "configure_chrony", "enable_linger", "prepare_dirs", "install_btrfs_helper",
     "ensure_btrfs_data", "configure_podman", "setup_master_conat_token",
     "install_node", "write_helpers", "configure_runtime_sudoers",
     "configure_cloudflared", "configure_autostart"}

\* an ensure_platform that compares the machine name as uname reports it
ensure_platform_raw(sysname, machine, expected_os, expected_arch) ==
    IF lower_word(sysname) # expected_os THEN "unsupported OS"
    ELSE IF machine \notin {"x86_64", "amd64", "aarch64", "arm64"}
         THEN "unsupported architecture"
    ELSE IF machine # expected_arch THEN "unsupported architecture (expected)"
    ELSE "ok"

\* ensure_platform(cfg): "ok", or the failure it raises
ensure_platform(sysname, machine, expected_os, expected_arch) ==
    LET arch == CASE machine \in {"x86_64", "amd64"} -> "amd64"
                  [] machine \in {"aarch64", "arm64"} -> "arm64"
                  [] OTHER -> "none"
    IN  IF lower_word(sysname) # expected_os THEN "unsupported OS"
        ELSE IF arch = "none" THEN "unsupported architecture"
        ELSE IF arch # expected_arch THEN "unsupported architecture (expected)"
        ELSE "ok"

\* a main that logs an exception and carries on with the next call
main_except_continue(p) == [phase |-> p + 1, exit |-> "none"]

\* except Exception: main's position and exit code after phase p raised
main_except(p) == [phase |-> 0, exit |-> "1"]

\* the artifacts of one invocation that the next one finds
Tracked == [fstab |-> fstab, envfile |-> envfile, current |-> current]

\* what is on the host, and the locals of the functions main calls
hostVars == <<dirs, current, remote, root, deployed, cfg, host, wrapper, daemon,
              dev, mnt, img, fstab, legacy, envfile, userExists,
              markers, paths, secret, rawdoc>>
localVars == <<eb, pre, ar, runs, slept, sb, sleeps, mt>>
sideVars == <<markers, paths, secret, mt, rawdoc>>

\* the call main is in returned: main makes the next one, after the
\* "running subset" line when that call was the first of a subset run
Advance ==
    /\ phase' = phase + 1
    /\ trace' = IF phase < Len(main_steps(only))
                THEN Append(trace, main_steps(only)[phase + 1]) ELSE trace
    /\ logged' = IF only # {} /\ phase = 1
                 THEN Append(logged, "bootstrap: running subset") ELSE logged
    /\ UNCHANGED exit

\* the call main is in raised: the except clause logs it and returns 1
Raise ==
    /\ phase' = main_except(phase).phase
    /\ exit' = main_except(phase).exit
    /\ logged' = Append(logged, "bootstrap: failed")
    /\ UNCHANGED trace

\* main(argv) with --only arg: load_config returns, parse_only, the first two
\* log lines (log_line makes the log directory), the call of
\* ensure_bootstrap_paths
Main_Begin(arg) ==
    /\ phase = 0
    /\ pc = "idle"
    /\ run < MaxRuns
    /\ load_config(rawdoc) = ""
    /\ run' = run + 1
    /\ only' = parse_only(arg)
    /\ phase' = 1
    /\ trace' = <<"ensure_bootstrap_paths">>
    /\ logged' = <<"bootstrap: starting python bootstrap">>
    /\ paths' = [paths EXCEPT !.logdir = TRUE]
    /\ exit' = "none"
    /\ prevClean' = (exit = "0" /\ clean)
    /\ snap' = Tracked
    /\ clean' = TRUE
    /\ result' = "none"
    /\ ran' = <<>>
    /\ image_size_gb' = 0
    /\ UNCHANGED <<pc, calls, dirs, current, remote, root, deployed, cfg, host, wrapper,
                   daemon, dev, mnt, img, fstab, legacy, envfile, userExists,
                   markers, secret, rawdoc, localVars>>

\* main(argv): load_config raises, nothing catches it and the interpreter
\* exits with status 1 after printing the traceback
Main_LoadFails ==
    /\ phase = 0
    /\ pc = "idle"
    /\ run < MaxRuns
    /\ load_config(rawdoc) # ""
    /\ run' = run + 1
    /\ exit' = "1"
    /\ result' = load_config(rawdoc)
    /\ trace' = <<>>
    /\ logged' = <<>>
    /\ UNCHANGED <<pc, calls, clean, phase, image_size_gb, snap, prevClean, only, ran,
                   hostVars, localVars>>

\* main is invoked without --only.  The host is bootstrapped again only
\* after an invocation that returned 0.
Main_Start ==
    /\ run > 0 => exit = "0"
    /\ Main_Begin(NoArg)

\* ensure_bootstrap_paths(cfg): the four directories, and the best-effort
\* chown to the bootstrap user
Main_EnsureBootstrapPaths ==
    /\ phase_name = "ensure_bootstrap_paths"
    /\ \E ok \in IF cfg.bootstrap_user \notin {"", "root"} THEN BOOLEAN ELSE {TRUE} :
          /\ paths' = [paths EXCEPT
                          !.logdir = TRUE, !.bootstrap = TRUE,
                          !.owner = IF cfg.bootstrap_user \notin {"", "root"} /\ ok
                                    THEN cfg.bootstrap_user ELSE @]
          /\ clean' = (clean /\ ok)
    /\ Advance
    /\ UNCHANGED <<pc, result, calls, run, image_size_gb, snap, prevClean, only, ran,
                   dirs, current, remote, root, deployed, cfg, host, wrapper, daemon,
                   dev, mnt, img, fstab, legacy, envfile, userExists,
                   markers, secret, rawdoc, localVars>>

\* ensure_platform(cfg)
Main_EnsurePlatform ==
    /\ phase_name = "ensure_platform"
    /\ IF ensure_platform(host.sysname, host.machine, cfg.expected_os,
                          cfg.expected_arch) = "ok"
       THEN Advance
       ELSE Raise
    /\ UNCHANGED <<pc, result, calls, clean, run, image_size_gb, snap, prevClean, only,
                   ran, hostVars, localVars>>

\* a phase without modelled effects beside those on `paths` returns
Main_Phase ==
    /\ phase_name \in BestEffortPhases \cup PlainPhases
    /\ paths' = phase_writes(phase_name, cfg, paths)
    /\ Advance
    /\ UNCHANGED <<pc, result, calls, clean, run, image_size_gb, snap, prevClean, only,
                   ran, dirs, current, remote, root, deployed, cfg, host, wrapper,
                   daemon, dev, mnt, img, fstab, legacy, envfile, userExists,
                   markers, secret, rawdoc, localVars>>

\* a phase that is not a modelled call raises
Main_PhaseRaises ==
    /\ phase_name \in PlainPhases \cup {"ensure_bootstrap_paths", "ensure_runtime_user",
                                        "write_wrapper"}
    /\ Raise
    /\ UNCHANGED <<pc, result, calls, clean, run, image_size_gb, snap, prevClean, only,
                   ran, hostVars, localVars>>

\* image_size_gb = compute_image_size(cfg)
Main_ComputeImageSize ==
    /\ phase_name = "compute_image_size"
    /\ image_size_gb' = compute_image_size(cfg.image_size_gb_raw, host.root_gb)
    /\ Advance
    /\ UNCHANGED <<pc, result, calls, clean, run, snap, prevClean, only, ran,
                   hostVars, localVars>>

\* apt_update_install(cfg): the first apt_run
Main_AptUpdate ==
    /\ phase_name = "apt_update_install"
    /\ result = "none"
    /\ Apt_Call("apt-get update", 3)
    /\ UNCHANGED <<calls, mainVars>>

\* apt_update_install(cfg): the second apt_run, after the first returned
Main_AptInstall ==
    /\ phase_name = "apt_update_install"
    /\ result = "ok"
    /\ ar.desc = "apt-get update"
    /\ Apt_Call("apt-get install", 3)
    /\ UNCHANGED <<calls, mainVars>>

\* ensure_runtime_user(cfg): useradd when the user has no passwd entry
Main_EnsureRuntimeUser ==
    /\ phase_name = "ensure_runtime_user"
    /\ userExists' = IF cfg.ssh_user \in {"", "root"} THEN userExists ELSE TRUE
    /\ Advance
    /\ UNCHANGED <<pc, result, calls, clean, run, image_size_gb, snap, prevClean, only, ran,
                   bundleVars, aptVars, cfg, host, startVars, diskVars, envfile, sideVars>>

\* setup_btrfs(cfg, image_size_gb)
Main_SetupBtrfs ==
    /\ phase_name = "setup_btrfs"
    /\ result = "none"
    /\ SB_Call(image_size_gb)
    /\ UNCHANGED <<calls, mainVars>>

\* write_env(cfg, image_size_gb); detect_public_ip is asked only when a line
\* holds $PUBLIC_IP, and may find nothing
Main_WriteEnv ==
    /\ phase_name = "write_env"
    /\ \E public_ip \in IF needs_public_ip(cfg.env_lines)
                        THEN {host.public_ip, ""} ELSE {""} :
          /\ clean' = (clean /\ (needs_public_ip(cfg.env_lines) => public_ip # ""))
          /\ IF cfg.ssh_user # "" /\ ~user_known(cfg.ssh_user, userExists)
             THEN /\ envfile' = env_base(cfg, public_ip)
                  /\ Raise
             ELSE /\ envfile' = write_env(cfg, host, public_ip, image_size_gb)
                  /\ Advance
    /\ UNCHANGED <<pc, result, calls, run, image_size_gb, snap, prevClean, only, ran,
                   bundleVars, aptVars, cfg, host, startVars, diskVars, userExists, sideVars>>

\* extract_bundle(cfg, cfg.project_host_bundle), ...(cfg.project_bundle),
\* ...(cfg.tools_bundle)
Main_ExtractBundle ==
    /\ phase_name \in Bundles
    /\ result = "none"
    /\ EB_Call(phase_name, cfg.dir[phase_name], cfg.sha256[phase_name])
    /\ UNCHANGED <<calls, mainVars>>

\* write_wrapper(cfg)
Main_WriteWrapper ==
    /\ phase_name = "write_wrapper"
    /\ wrapper' = TRUE
    /\ Advance
    /\ UNCHANGED <<pc, result, calls, clean, run, image_size_gb, snap, prevClean, only, ran,
                   bundleVars, aptVars, cfg, host, daemon, diskVars, envfile, userExists,
                   sideVars>>

\* start_project_host(cfg)
Main_StartProjectHost ==
    /\ phase_name = "start_project_host"
    /\ result = "none"
    /\ SP_Call
    /\ UNCHANGED <<calls, mainVars>>

\* a modelled call has ended, its locals are gone: main goes on to the next
\* call, or logs the failure and returns 1
Main_CallEnded ==
    /\ phase_name \in {"apt_update_install", "setup_btrfs", "start_project_host"} \cup Bundles
    /\ pc = "idle"
    /\ result # "none"
    /\ ~(phase_name = "apt_update_install" /\ result = "ok" /\ ar.desc = "apt-get update")
    /\ IF result = "ok" THEN Advance ELSE Raise
    /\ result' = "none"
    /\ ran' = <<>>
    /\ eb' = NoBundle
    /\ pre' = NoPre
    /\ ar' = NoApt
    /\ runs' = 0
    /\ slept' = <<>>
    /\ sb' = NoSb
    /\ sleeps' = 0
    /\ UNCHANGED <<pc, calls, clean, run, image_size_gb, snap, prevClean, only, mt, hostVars>>

\* touch_paths(cfg.bootstrap_done_paths): each marker is touched, an
\* exception for one of them is passed over
Main_TouchPaths ==
    /\ phase_name = "touch_paths"
    /\ \E touched \in SUBSET DonePaths :
          /\ markers' = [p \in DonePaths |-> markers[p] \/ p \in touched]
          /\ clean' = (clean /\ touched = DonePaths)
    /\ Advance
    /\ UNCHANGED <<pc, result, calls, run, image_size_gb, snap, prevClean, only, ran,
                   dirs, current, remote, root, deployed, cfg, host, wrapper, daemon,
                   dev, mnt, img, fstab, legacy, envfile, userExists,
                   paths, secret, rawdoc, localVars>>

\* return 0: after "bootstrap: completed successfully" in a full run
Main_Return ==
    /\ phase_name = "return"
    /\ phase' = 0
    /\ exit' = "0"
    /\ logged' = IF only = {} THEN Append(logged, "bootstrap: completed successfully")
                 ELSE logged
    /\ UNCHANGED <<pc, result, calls, clean, run, image_size_gb, snap, prevClean, only,
                   trace, ran, hostVars, localVars>>

----------------------------------------------------------------------------
(* The whole bootstrap: main invoked up to MaxRuns times with the same      *)
(* configuration on a host that nothing else changes between invocations.  *)

\* configurations of the environment file
EnvConfigs ==
    {[env_lines |-> <<>>, raw |-> <<"2", "0">>, user |-> ""],
     [env_lines |-> <<<<"PUBLIC_URL", "=", "https://", "$PUBLIC_IP">>,
                      <<"COCALC_BTRFS_IMAGE_GB", "=", "1">>>>,
      raw |-> Auto, user |-> "cocalc"],
     [env_lines |-> <<<<"COCALC_PODMAN_RUNTIME_DIR", "=", "/tmp">>,
                      <<"COCALC_PODMAN_RUNTIME_DIR", "=", "/run">>>>,
      raw |-> <<"x">>, user |-> "root"]}

\* hosts: without data disk and fresh; provisioned earlier with the legacy
\* image mounted at /btrfs; with a fresh first candidate disk and the second
\* one mounted at /mnt/cocalc; with a candidate disk that is not attached yet
DiskHosts ==
    LET FreshDevice == [exists |-> TRUE, size |-> 10240, fstype |-> "", gen |-> 0]
        NoDevice == [exists |-> FALSE, size |-> 10240, fstype |-> "", gen |-> 0]
        UsedDevice == [exists |-> TRUE, size |-> 10240, fstype |-> "btrfs", gen |-> 0]
        NoMounts == [m \in Mountpoints |-> "none"]
    IN
        {[devices |-> <<>>, dev |-> [d \in Devs |-> NoDevice],
          img |-> [p \in ImagePaths |-> NoImage], mnt |-> NoMounts,
          fstab |-> File(RootLine), legacy |-> "none"],
         [devices |-> <<>>, dev |-> [d \in Devs |-> NoDevice],
          img |-> [p \in ImagePaths |-> IF p = "/var/lib/cocalc/btrfs.img" THEN OldImage ELSE NoImage],
          mnt |-> [NoMounts EXCEPT !["/btrfs"] = "/var/lib/cocalc/btrfs.img"],
          fstab |-> File(RootLine \o <<NL>> \o LegacyLine \o <<NL>>), legacy |-> "dir"],
         [devices |-> <<"/dev/sdb", "/dev/nvme1n1">>,
          dev |-> [d \in Devs |-> IF d = "/dev/sdb" THEN FreshDevice ELSE UsedDevice],
          img |-> [p \in ImagePaths |-> NoImage],
          mnt |-> [NoMounts EXCEPT !["/mnt/cocalc"] = "/dev/nvme1n1"],
          fstab |-> File(RootLine \o <<NL>>), legacy |-> "none"],
         [devices |-> <<"/dev/sdb">>, dev |-> [d \in Devs |-> NoDevice],
          img |-> [p \in ImagePaths |-> NoImage], mnt |-> NoMounts,
          fstab |-> AbsentFile, legacy |-> "link_other"]}

\* the hosts and configurations of the runs, the host's kernel and machine
\* being one of platforms, the environment configuration one of envs, the
\* host's storage one of hosts
RunInits(platforms, envs, hosts) ==
    /\ CtlInit
    /\ AptIdle
    /\ StartIdle
    /\ \E e \in envs, a \in Archives, h \in hosts, pf \in platforms :
          /\ cfg = [NoCfg EXCEPT !.env_lines = e.env_lines,
                                 !.devices = h.devices,
                                 !.image_size_gb_raw = e.raw,
                                 !.ssh_user = e.user,
                                 !.bootstrap_user = IF e.user = "cocalc" THEN "ubuntu" ELSE e.user,
                                 !.sha256 = [b \in Bundles |->
                                               IF b = "tools_bundle" THEN hexdigest(1)
                                               ELSE <<>>]]
          /\ host = [NoHost EXCEPT
                        !.serves = [b \in Bundles |->
                                      IF b = "project_host_bundle" THEN {a} ELSE {1}],
                        !.root_gb = 40, !.public_ip = "203.0.113.7", !.uid = 1001,
                        !.sysname = pf[1], !.machine = pf[2]]
          /\ dev = h.dev
          /\ img = h.img
          /\ mnt = h.mnt
          /\ fstab = h.fstab
          /\ legacy = h.legacy
    /\ sb = NoSb
    /\ sleeps = 0
    /\ envfile = AbsentFile
    /\ userExists = FALSE
    /\ SideIdle
    /\ \E old \in BOOLEAN :
          /\ dirs = [b \in Bundles |-> [d \in VersionDirs |->
                        IF old /\ d = NVersions THEN FullDir(1) ELSE AbsentDir]]
          /\ current = [b \in Bundles |-> IF old THEN LinkTo(NVersions) ELSE NoCurrent]
          /\ root = [b \in Bundles |-> old]
    /\ remote = [b \in Bundles |-> 0]
    /\ eb = NoBundle
    /\ pre = NoPre
    /\ deployed = [b \in Bundles |-> FALSE]

InitMain == RunInits({<<"Linux", "x86_64">>}, EnvConfigs, DiskHosts)

\* the steps setup_btrfs makes when candidate data disks are configured
DeviceSteps ==
    \/ SB_Poll
    \/ SB_Sleep
    \/ SB_DiskAttached
    \/ SB_Fstype
    \/ SB_Mkfs
    \/ SB_Mount
    \/ SB_Fstab

\* the steps of the other calls main makes
CallSteps ==
    \/ Apt_RunOk
    \/ Apt_RunFails
    \/ Apt_Sleep
    \/ SB_Bind
    \/ SB_Image
    \/ SB_Truncate
    \/ SB_MkfsImage
    \/ SB_MountImage
    \/ SB_FstabImage
    \/ SB_Legacy
    \/ SB_CommandFails
    \/ EB_Download
    \/ EB_DownloadFails
    \/ EB_Verify
    \/ EB_RmTree
    \/ EB_RmTreeDone
    \/ EB_MkDir
    \/ EB_TarRuns
    \/ EB_TarDone
    \/ EB_TarFails
    \/ EB_RemoveCurrent
    \/ EB_Symlink
    \/ SP_Check
    \/ SP_Stop
    \/ SP_StopRaises
    \/ SP_Start
    \/ SP_StartFails

\* the steps of main itself, after its start
MainSteps ==
    \/ Main_EnsureBootstrapPaths
    \/ Main_EnsurePlatform
    \/ Main_Phase
    \/ Main_PhaseRaises
    \/ Main_ComputeImageSize
    \/ Main_AptUpdate
    \/ Main_AptInstall
    \/ Main_EnsureRuntimeUser
    \/ Main_SetupBtrfs
    \/ Main_WriteEnv
    \/ Main_ExtractBundle
    \/ Main_WriteWrapper
    \/ Main_StartProjectHost
    \/ Main_CallEnded
    \/ Main_TouchPaths
    \/ Main_Return

NextMain ==
    \/ Main_Start
    \/ MainSteps
    \/ DeviceSteps
    \/ CallSteps

SpecMain == InitMain /\ [][NextMain]_vars

----------------------------------------------------------------------------
(* Any invocation: main with or without --only, on hosts of the expected   *)
(* platform and of others.                                                 *)

\* values of --only
Selectors ==
    {NoArg,
     <<<<" ">>, <<>>>>,
     <<<<"tools_bundle">>>>,
     <<<<" ", "Project_Bundle", " ">>, <<"TOOLS_BUNDLE">>>>,
     <<<<"project_host_bundle">>>>,
     <<<<"node">>>>}

Platforms ==
    {<<"Linux", "x86_64">>, <<"Linux", "aarch64">>, <<"Darwin", "arm64">>,
     <<"Linux", "riscv64">>}

\* main is invoked, with any value of --only
Main_StartOnly ==
    /\ run > 0 => exit = "0"
    /\ \E arg \in Selectors : Main_Begin(arg)

\* hosts without candidate data disks
InitInvoke ==
    RunInits(Platforms, {e \in EnvConfigs : e.user = "cocalc"},
             {h \in DiskHosts : h.devices = <<>>})

NextInvoke ==
    \/ Main_StartOnly
    \/ MainSteps
    \/ CallSteps

SpecInvoke == InitInvoke /\ [][NextInvoke]_vars

----------------------------------------------------------------------------
(* The start of an invocation: load_config on documents that differ from a *)
(* valid one in one or two fields, and main up to its first call.          *)

\* fields altered two at a time
PairFields == {"log_file", "apt_packages", "project_bundle", "tools_bundle.dir",
               "bootstrap_done_paths"}

Docs ==
    {[GoodDoc EXCEPT ![f] = k] : f \in DocFields, k \in Kinds} \cup
    {[GoodDoc EXCEPT ![f] = k, ![g] = l] :
        f \in PairFields, g \in PairFields, k \in {"absent", "int"}, l \in {"zero", "dict"}}

InitConfig ==
    /\ CtlInit
    /\ EnvIdle
    /\ BundleIdle
    /\ AptIdle
    /\ StartIdle
    /\ DiskIdle
    /\ cfg = NoCfg
    /\ host = NoHost
    /\ markers = [p \in DonePaths |-> FALSE]
    /\ paths = NoPaths
    /\ secret = NoSecret
    /\ mt = NoMt
    /\ rawdoc \in Docs

NextConfig ==
    \/ Main_LoadFails
    \/ Main_Start
    \/ Main_EnsureBootstrapPaths
    \/ Main_PhaseRaises

SpecConfig == InitConfig /\ [][NextConfig]_vars

----------------------------------------------------------------------------
(* Resumption: a full invocation that a failing command or a signal ends   *)
(* after any step, then full invocations on the host it left behind in     *)
(* which no command fails that can succeed on that host.                   *)

\* the process is terminated (SIGKILL, power loss) wherever it is: nothing
\* is logged, the locals are gone, the host stays as it is
Main_Killed ==
    /\ phase > 0
    /\ run = 1
    /\ phase' = 0
    /\ exit' = "killed"
    /\ pc' = "idle"
    /\ result' = "none"
    /\ ran' = <<>>
    /\ eb' = NoBundle
    /\ pre' = NoPre
    /\ ar' = NoApt
    /\ runs' = 0
    /\ slept' = <<>>
    /\ sb' = NoSb
    /\ sleeps' = 0
    /\ mt' = NoMt
    /\ UNCHANGED <<calls, clean, run, image_size_gb, snap, prevClean, only, trace, logged,
                   hostVars>>

\* main is invoked without --only: the first time, or again after an
\* invocation that did not return 0
Main_Resume ==
    /\ run > 0 => exit # "0"
    /\ Main_Begin(NoArg)

\* mount -o loop cannot succeed on an image file that holds no filesystem
MustFail == pc = "sb_mountimg" /\ img[sb.image_path].fstype = ""

\* the steps in which every command exits 0
GoodSteps ==
    \/ Main_EnsureBootstrapPaths
    \/ Main_EnsurePlatform
    \/ Main_Phase
    \/ Main_ComputeImageSize
    \/ Main_AptUpdate
    \/ Main_AptInstall
    \/ Main_EnsureRuntimeUser
    \/ Main_SetupBtrfs
    \/ Main_WriteEnv
    \/ Main_ExtractBundle
    \/ Main_WriteWrapper
    \/ Main_StartProjectHost
    \/ Main_CallEnded
    \/ Main_TouchPaths
    \/ Main_Return
    \/ Apt_RunOk
    \/ SB_Bind
    \/ SB_Image
    \/ SB_Truncate
    \/ SB_MkfsImage
    \/ SB_MountImage
    \/ SB_FstabImage
    \/ SB_Legacy
    \/ EB_Download
    \/ EB_Verify
    \/ EB_RmTree
    \/ EB_RmTreeDone
    \/ EB_MkDir
    \/ EB_TarRuns
    \/ EB_TarDone
    \/ EB_RemoveCurrent
    \/ EB_Symlink
    \/ SP_Check
    \/ SP_Stop
    \/ SP_Start

\* a command of the first invocation fails although it could have succeeded
FirstRunFaults ==
    /\ run = 1
    /\ \/ Main_PhaseRaises
       \/ Apt_RunFails
       \/ Apt_Sleep
       \/ SB_CommandFails
       \/ EB_DownloadFails
       \/ EB_TarFails
       \/ SP_StopRaises
       \/ SP_StartFails

\* a command fails because it cannot succeed on the host as it is
ForcedFailure ==
    /\ MustFail
    /\ SB_CommandFails

InitResume ==
    RunInits({<<"Linux", "x86_64">>}, {e \in EnvConfigs : e.user = "cocalc"},
             {h \in DiskHosts : h.devices = <<>>})

NextResume ==
    \/ Main_Resume
    \/ Main_Killed
    \/ GoodSteps
    \/ FirstRunFaults
    \/ ForcedFailure

SpecResume == InitResume /\ [][NextResume]_vars

----------------------------------------------------------------------------
(* The mount table on its own: update_fstab called with the line of a data *)
(* disk or of a loopback image on an /etc/fstab of up to MaxFstabLines     *)
(* lines, its fields separated by spaces or by tabs.                       *)

\* the lines /etc/fstab can hold before the bootstrap: the root filesystem,
\* an unrelated data mount, entries for /mnt/cocalc and for the legacy /btrfs
\* written with spaces or with tabs, a loopback line of an earlier bootstrap
PriorLines ==
    {<<"UUID=root", " ", "/", " ", "ext4 defaults 0 1">>,
     <<"/dev/sdz", "\t", "/data", "\t", "ext4 defaults 0 2">>,
     <<"UUID=old", " ", "/mnt/cocalc", " ", "btrfs defaults 0 0">>,
     <<"UUID=old", "\t", "/mnt/cocalc", "\t", "btrfs defaults 0 0">>,
     <<"/dev/sdb", " ", "/btrfs", " ", "btrfs defaults 0 0">>,
     <<"/dev/sdb", "\t", "/btrfs", "\t", "btrfs defaults 0 0">>,
     image_fstab_line("/var/lib/cocalc/btrfs.img")}

\* the lines setup_btrfs passes to update_fstab
NewLines ==
    {<<"UUID=/dev/sdb#0", " ", "/mnt/cocalc", " ", "btrfs defaults,nofail 0 0">>,
     image_fstab_line("/var/lib/cocalc/cocalc.img")}

\* /etc/fstab is missing, or holds up to MaxFstabLines lines, each ended by
\* a newline
PriorFstabs ==
    {AbsentFile} \cup
    {File(join(ls) \o <<NL>>) :
        ls \in UNION {[1..n -> PriorLines] : n \in 1..MaxFstabLines}}

InitFstab ==
    /\ CtlInit
    /\ EnvIdle
    /\ SideIdle
    /\ host = NoHost
    /\ cfg = NoCfg
    /\ BundleIdle
    /\ AptIdle
    /\ StartIdle
    /\ dev = [d \in Devs |-> [exists |-> FALSE, size |-> 0, fstype |-> "", gen |-> 0]]
    /\ mnt = [m \in Mountpoints |-> "none"]
    /\ img = [p \in ImagePaths |-> [exists |-> FALSE, fstype |-> "", size_gb |-> 0]]
    /\ legacy = "none"
    /\ sb = NoSb
    /\ sleeps = 0
    /\ fstab \in PriorFstabs

\* update_fstab(line): `ran` keeps the line, sb.pre the file as it was
Fstab_Update ==
    /\ calls < MaxCalls
    /\ calls' = calls + 1
    /\ \E line \in NewLines :
          /\ fstab' = update_fstab(fstab, line)
          /\ ran' = <<<<"update_fstab", line>>>>
    /\ sb' = [sb EXCEPT !.pre.fstab = fstab]
    /\ result' = "ok"
    /\ UNCHANGED <<pc, clean, mainVars, dev, mnt, img, legacy, sleeps, othersSB>>

NextFstab == Fstab_Update

SpecFstab == InitFstab /\ [][NextFstab]_vars

----------------------------------------------------------------------------
(* Best-effort commands: run_cmd with check=False inside run_best_effort,   *)
(* as reenable_unattended calls it twice in a row.  `logged` holds the      *)
(* lines log_line wrote since the call, `ran` what became of each command:  *)
(* its description, "exit" with the exit status and the output, or "raised" *)
(* with the exception of subprocess.run.                                    *)

\* the descriptions of the two commands of reenable_unattended
BestEffortDescs == <<"install unattended-upgrades", "enable unattended-upgrades">>

\* exit statuses, outputs and exceptions of a command
ExitCodes == {0, 1, 100}
Outputs == {<<>>, <<"E: Unable to locate package">>}
RunExceptions == {"FileNotFoundError", "PermissionError"}

\* run_cmd: `if check and result.returncode != 0: raise`
run_cmd_raises(check, returncode) == check /\ returncode # 0

\* where reenable_unattended is: in its k-th run_best_effort, at `at`
rbe_pc(k, at) ==
    IF k = 1 THEN (IF at = "log" THEN "rbe1_log" ELSE IF at = "run" THEN "rbe1_run"
                   ELSE "rbe1_except")
    ELSE (IF at = "log" THEN "rbe2_log" ELSE IF at = "run" THEN "rbe2_run"
          ELSE "rbe2_except")

\* what follows the k-th run_best_effort: the next one, or the return
rbe_next(k) == IF k < Len(BestEffortDescs) THEN rbe_pc(k + 1, "log") ELSE "idle"

cmdOthers == <<clean, phase, run, exit, image_size_gb, snap, prevClean, only, trace,
               hostVars, localVars>>

\* reenable_unattended(cfg): entry
RU_Call ==
    /\ pc = "idle"
    /\ calls < MaxCalls
    /\ calls' = calls + 1
    /\ pc' = rbe_pc(1, "log")
    /\ result' = "none"
    /\ ran' = <<>>
    /\ logged' = <<>>
    /\ UNCHANGED cmdOthers

\* run_cmd: the "running" line
RunCmd_Log(k) ==
    /\ pc = rbe_pc(k, "log")
    /\ logged' = Append(logged, "bootstrap: running " \o BestEffortDescs[k])
    /\ pc' = rbe_pc(k, "run")
    /\ UNCHANGED <<result, calls, ran, cmdOthers>>

\* run_cmd: subprocess.run returns; the output is logged line by line;
\* check is False, so the exit status is not looked at, and run_best_effort
\* returns
RunCmd_Exits(k) ==
    /\ pc = rbe_pc(k, "run")
    /\ \E rc \in ExitCodes, out \in Outputs :
          /\ logged' = logged \o out
          /\ ran' = Append(ran, [desc |-> BestEffortDescs[k], how |-> "exit",
                                 rc |-> rc, out |-> out, exc |-> "none"])
          /\ IF run_cmd_raises(FALSE, rc)
             THEN pc' = rbe_pc(k, "except") /\ UNCHANGED result
             ELSE /\ pc' = rbe_next(k)
                  /\ result' = IF rbe_next(k) = "idle" THEN "ok" ELSE result
    /\ UNCHANGED <<calls, cmdOthers>>

\* run_cmd: subprocess.run raises (the executable is missing, or cannot be
\* executed)
RunCmd_Raises(k) ==
    /\ pc = rbe_pc(k, "run")
    /\ \E exc \in RunExceptions :
          ran' = Append(ran, [desc |-> BestEffortDescs[k], how |-> "raised",
                              rc |-> 0, out |-> <<>>, exc |-> exc])
    /\ pc' = rbe_pc(k, "except")
    /\ UNCHANGED <<result, calls, logged, cmdOthers>>

\* run_best_effort: except Exception: the "failed (ignored)" line
RBE_Except(k) ==
    /\ pc = rbe_pc(k, "except")
    /\ logged' = Append(logged, "bootstrap: " \o BestEffortDescs[k] \o " failed (ignored)")
    /\ pc' = rbe_next(k)
    /\ result' = IF rbe_next(k) = "idle" THEN "ok" ELSE result
    /\ UNCHANGED <<calls, ran, cmdOthers>>

InitCmd ==
    /\ CtlInit
    /\ EnvIdle
    /\ SideIdle
    /\ DiskIdle
    /\ BundleIdle
    /\ AptIdle
    /\ StartIdle
    /\ host = NoHost
    /\ cfg = NoCfg

NextCmd ==
    \/ RU_Call
    \/ \E k \in 1..Len(BestEffortDescs) : RunCmd_Log(k)
    \/ \E k \in 1..Len(BestEffortDescs) : RunCmd_Exits(k)
    \/ \E k \in 1..Len(BestEffortDescs) : RunCmd_Raises(k)
    \/ \E k \in 1..Len(BestEffortDescs) : RBE_Except(k)

SpecCmd == InitCmd /\ [][NextCmd]_vars

----------------------------------------------------------------------------
(* Storage growth: invocations of main, and after each of them runs of the  *)
(* growth helper with any target, as root or not.                          *)

\* hosts whose storage is there from the start, nothing deployed yet, one
\* archive served; the runtime user is not root
InitGrow ==
    /\ RunInits({<<"Linux", "x86_64">>}, {e \in EnvConfigs : e.user # "root"},
                {h \in DiskHosts : h.devices = <<>> \/ h.dev["/dev/sdb"].exists})
    /\ host.serves["project_host_bundle"] = {1}
    /\ root = [b \in Bundles |-> FALSE]

\* /mnt/cocalc is unmounted on a bootstrapped host (by an administrator, or
\* because the nofail mount did not come up after a reboot)
Host_Umount ==
    /\ pc = "idle"
    /\ phase = 0
    /\ run > 0
    /\ exit = "0"
    /\ clean
    /\ is_mount(mnt, "/mnt/cocalc")
    /\ calls < MaxCalls
    /\ calls' = calls + 1
    /\ mnt' = [mnt EXCEPT !["/mnt/cocalc"] = "none"]
    /\ ran' = <<>>
    /\ result' = "none"
    /\ UNCHANGED <<pc, clean, phase, run, exit, image_size_gb, snap, prevClean, invVars,
                   bundleVars, aptVars, cfg, host, startVars, dev, img, fstab, legacy,
                   sb, sleeps, envfile, userExists>>

\* the runs are those in which every required command succeeds
NextGrow ==
    \/ Main_Start
    \/ Grow_Helper
    \/ Host_Umount
    \/ GoodSteps
    \/ SB_Poll
    \/ SB_Fstype
    \/ SB_Mkfs
    \/ SB_Mount
    \/ SB_Fstab

SpecGrow == InitGrow /\ [][NextGrow]_vars

----------------------------------------------------------------------------
(* Helpers and optional features on their own: calls of write_helpers,       *)
(* configure_runtime_sudoers, configure_cloudflared and install_gpu_support  *)
(* under any runtime user and any setting of the two feature flags, and      *)
(* users asking sudo -n for a command.  `trace` holds the calls made, `ran`  *)
(* the command last asked for, `result` what sudo answered.                  *)

\* command lines a user may ask sudo to run as root
SudoCommands ==
    {<<GrowHelper>>, <<GrowHelper, "30">>,
     <<"/usr/bin/btrfs", "filesystem", "resize", "max", "/mnt/cocalc">>,
     <<"/usr/bin/rm", "-rf", "/">>,
     <<"/usr/bin/chown", "cocalc", "/etc/shadow">>,
     <<"/usr/bin/chmod", "4755", "/bin/bash">>,
     <<"/usr/bin/mv", "/tmp/sudoers", "/etc/sudoers">>,
     <<"/bin/mount", "/dev/sda1", "/mnt">>,
     <<"/usr/bin/mkfs.btrfs", "-f", "/dev/sda1">>,
     <<"/bin/systemctl", "restart", "cocalc-cloudflared">>,
     <<"/usr/bin/systemctl", "stop", "ssh", "cocalc-cloudflared">>,
     <<"/usr/bin/journalctl", "-u", "cocalc-cloudflared.service">>,
     <<"/bin/systemctl", "cocalc-cloudflared">>,
     <<"/bin/systemctl", "restart", "ssh">>,
     <<"/usr/bin/apt-get", "install", "netcat">>}

\* `cloudflared` objects of a bootstrap configuration: the tunnel off or on,
\* authenticated by a token, by a tunnel id and credentials (under either
\* spelling of the keys), by credentials without a tunnel id, or by nothing
CloudflaredDocs ==
    LET NoDoc == [enabled |-> FALSE, token |-> "", tunnelId |-> "", tunnel_id |-> "",
                  credsJson |-> "", creds_json |-> ""]
    IN  {[NoDoc EXCEPT !.enabled = on, !.token = "token"] : on \in BOOLEAN}
        \cup {[NoDoc EXCEPT !.enabled = on, !.tunnelId = "tunnel", !.credsJson = "{}"] :
                on \in BOOLEAN}
        \cup {[NoDoc EXCEPT !.enabled = TRUE, !.tunnel_id = "tunnel", !.creds_json = "{}"],
              [NoDoc EXCEPT !.enabled = TRUE, !.credsJson = "{}"],
              [NoDoc EXCEPT !.enabled = TRUE]}

\* a call of one of the helper functions, which returns
Helper_Call ==
    /\ pc = "idle"
    /\ calls < MaxCalls
    /\ \E f \in HelperPhases :
          /\ paths' = phase_writes(f, cfg, paths)
          /\ trace' = Append(trace, f)
          /\ result' = phase_result(f, cfg, host)
    /\ calls' = calls + 1
    /\ ran' = <<>>
    /\ UNCHANGED <<pc, clean, phase, run, exit, image_size_gb, snap, prevClean,
                   envfile, userExists, host, bundleVars, aptVars, cfg, startVars,
                   diskVars, only, logged, markers, secret, mt, rawdoc>>

\* sudo -n <command> by the runtime user or by another user of the host
Sudo_Ask ==
    /\ pc = "idle"
    /\ \E user \in {"cocalc", "ubuntu"}, cmd \in SudoCommands :
          /\ ran' = <<[sudo |-> user, path |-> Head(cmd), args |-> Tail(cmd)]>>
          /\ result' = IF sudo_allows(paths.sudoers, user, Head(cmd), Tail(cmd))
                       THEN "allowed" ELSE "denied"
    /\ UNCHANGED <<pc, calls, clean, phase, run, exit, image_size_gb, snap, prevClean,
                   envfile, userExists, host, bundleVars, aptVars, cfg, startVars,
                   diskVars, invVars>>

InitHelpers ==
    /\ CtlInit
    /\ EnvIdle
    /\ SideIdle
    /\ DiskIdle
    /\ BundleIdle
    /\ AptIdle
    /\ StartIdle
    /\ \E v \in {"absent", "accepts", "rejects"} : host = [NoHost EXCEPT !.visudo = v]
    /\ \E user \in {"", "root", "cocalc"}, gpu \in BOOLEAN, doc \in CloudflaredDocs :
          cfg = [NoCfg EXCEPT !.ssh_user = user, !.has_gpu = gpu,
                              !.cloudflared = CloudflaredSpec(doc)]

NextHelpers ==
    \/ Helper_Call
    \/ Sudo_Ask

SpecHelpers == InitHelpers /\ [][NextHelpers]_vars

----------------------------------------------------------------------------
(* The log on its own: calls of log_line with or without a log file          *)
(* configured, the creation of the log directory and the append to the log   *)
(* file each succeeding or failing in one of the ways the filesystem can     *)
(* make them fail.  `logged` holds the lines written to stdout, `ran` the    *)
(* lines appended to the log file.                                           *)

LogMessages ==
    {"bootstrap: starting", "bootstrap: failed", "bootstrap: completed successfully"}

\* what Path.mkdir(parents=True, exist_ok=True) can raise: no permission, a
\* file where a directory should be, a read-only or full filesystem
MkdirErrors == {"PermissionError", "FileExistsError", "OSError"}

\* what open(..., "a") and handle.write can raise
AppendErrors == {"PermissionError", "IsADirectoryError", "OSError"}

\* except PermissionError: the exceptions of the append that log_line swallows
log_line_swallows(e) == e = "PermissionError"

\* log_line(cfg, message): the line goes to stdout
LL_Call ==
    /\ pc = "idle"
    /\ calls < MaxCalls
    /\ calls' = calls + 1
    /\ \E m \in LogMessages : logged' = Append(logged, m)
    /\ pc' = IF cfg.log_file # "" THEN "ll_mkdir" ELSE "idle"
    /\ result' = IF cfg.log_file # "" THEN "none" ELSE "ok"
    /\ UNCHANGED <<clean, phase, run, exit, image_size_gb, snap, prevClean,
                   envfile, userExists, host, bundleVars, aptVars, cfg, startVars,
                   ran, diskVars, only, trace, markers, paths, secret, mt, rawdoc>>

\* Path(cfg.log_file).parent.mkdir(parents=True, exist_ok=True), outside the
\* try statement
LL_Mkdir ==
    /\ pc = "ll_mkdir"
    /\ \/ /\ paths' = [paths EXCEPT !.logdir = TRUE]
          /\ pc' = "ll_append"
          /\ UNCHANGED result
       \/ /\ ~paths.logdir
          /\ \E e \in MkdirErrors : result' = "raised_" \o e
          /\ pc' = "idle"
          /\ UNCHANGED paths
    /\ UNCHANGED <<calls, clean, phase, run, exit, image_size_gb, snap, prevClean,
                   envfile, userExists, host, bundleVars, aptVars, cfg, startVars,
                   ran, diskVars, only, trace, logged, markers, secret, mt, rawdoc>>

\* with open(cfg.log_file, "a") as handle: handle.write(line), inside the try
LL_Append ==
    /\ pc = "ll_append"
    /\ \/ /\ ran' = Append(ran, logged[Len(logged)])
          /\ result' = "ok"
       \/ /\ \E e \in AppendErrors :
                result' = IF log_line_swallows(e) THEN "ok" ELSE "raised_" \o e
          /\ UNCHANGED ran
    /\ pc' = "idle"
    /\ UNCHANGED <<calls, clean, phase, run, exit, image_size_gb, snap, prevClean,
                   envfile, userExists, host, bundleVars, aptVars, cfg, startVars,
                   diskVars, invVars>>

InitLog ==
    /\ CtlInit
    /\ EnvIdle
    /\ SideIdle
    /\ DiskIdle
    /\ BundleIdle
    /\ AptIdle
    /\ StartIdle
    /\ host = NoHost
    /\ \E f \in {"", "/var/log/cocalc/bootstrap.log"} : cfg = [NoCfg EXCEPT !.log_file = f]

NextLog ==
    \/ LL_Call
    \/ LL_Mkdir
    \/ LL_Append

SpecLog == InitLog /\ [][NextLog]_vars

----------------------------------------------------------------------------
(* The platform guard on its own: ensure_platform on any host, under any    *)
(* configured OS and architecture.                                           *)

\* what uname reports
Sysnames == {"Linux", "Darwin"}
Machines == {"x86_64", "amd64", "aarch64", "arm64", "riscv64"}

\* what a configuration can expect
ExpectedOs == {"linux", "Linux", "darwin"}
ExpectedArch == {"amd64", "arm64", "x86_64", "aarch64"}

\* ensure_platform(cfg) returns or raises
Platform_Call ==
    /\ pc = "idle"
    /\ calls < MaxCalls
    /\ calls' = calls + 1
    /\ result' = ensure_platform(host.sysname, host.machine, cfg.expected_os,
                                 cfg.expected_arch)
    /\ trace' = Append(trace, "ensure_platform")
    /\ UNCHANGED <<pc, clean, phase, run, exit, image_size_gb, snap, prevClean,
                   envfile, userExists, host, bundleVars, aptVars, cfg, startVars,
                   ran, diskVars, only, logged, markers, paths, secret, mt, rawdoc>>

InitPlatform ==
    /\ CtlInit
    /\ EnvIdle
    /\ SideIdle
    /\ DiskIdle
    /\ BundleIdle
    /\ AptIdle
    /\ StartIdle
    /\ \E sysname \in Sysnames, machine \in Machines :
          host = [NoHost EXCEPT !.sysname = sysname, !.machine = machine]
    /\ \E os \in ExpectedOs, arch \in ExpectedArch :
          cfg = [NoCfg EXCEPT !.expected_os = os, !.expected_arch = arch]

NextPlatform == Platform_Call

SpecPlatform == InitPlatform /\ [][NextPlatform]_vars

----------------------------------------------------------------------------
(* The environment file on its own: upsert_env with any key and value on a   *)
(* file that is missing or holds up to MaxEnvLines lines, the last of them   *)
(* ended by a newline or not.  `snap.envfile` is the file before the last    *)
(* upsert, `ran` its key and value.                                          *)

EnvKeys == {"COCALC_BTRFS_IMAGE_GB", "COCALC_PODMAN_RUNTIME_DIR"}
EnvValues == {"20", "/run"}

\* lines a file can hold before an upsert: settings of the keys, of a key
\* that one of them is a prefix of, a comment, an empty line
PriorEnvLines ==
    {<<"COCALC_BTRFS_IMAGE_GB", "=", "20">>, <<"COCALC_BTRFS_IMAGE_GB", "=", "5">>,
     <<"COCALC_PODMAN_RUNTIME_DIR", "=", "/tmp">>,
     <<"COCALC_BTRFS_IMAGE_GB_MAX", "=", "20">>,
     <<"#", " ", "COCALC_BTRFS_IMAGE_GB", "=", "20">>, <<>>}

PriorEnvFiles ==
    {AbsentFile, File(<<>>)} \cup
    {File(join(ls) \o end) :
        ls \in UNION {[1..n -> PriorEnvLines] : n \in 1..MaxEnvLines},
        end \in {<<>>, <<NL>>}}

\* upsert_env(cfg.env_file, key, value)
Env_Upsert ==
    /\ pc = "idle"
    /\ calls < MaxCalls
    /\ calls' = calls + 1
    /\ \E key \in EnvKeys, value \in EnvValues :
          /\ envfile' = upsert_env(envfile, key, value)
          /\ ran' = <<[key |-> key, value |-> value]>>
    /\ snap' = [snap EXCEPT !.envfile = envfile]
    /\ result' = "ok"
    /\ UNCHANGED <<pc, clean, phase, run, exit, image_size_gb, prevClean,
                   userExists, host, bundleVars, aptVars, cfg, startVars,
                   diskVars, invVars>>

InitEnv ==
    /\ CtlInit
    /\ SideIdle
    /\ DiskIdle
    /\ BundleIdle
    /\ AptIdle
    /\ StartIdle
    /\ host = NoHost
    /\ cfg = NoCfg
    /\ userExists = FALSE
    /\ envfile \in PriorEnvFiles

NextEnv == Env_Upsert

SpecEnv == InitEnv /\ [][NextEnv]_vars

----------------------------------------------------------------------------
(* Properties of the whole bootstrap (SpecMain) *)

\* an fstab line that mounts something at /mnt/cocalc
IsCocalcMount(l) == Contains(l, <<" ", "/mnt/cocalc", " ">>)

\* C1: a full run of main in which every external command succeeded, made on
\* the host as such a run left it, ends with the same /etc/fstab, the same
\* environment file and the same `current` links of the three bundles as the
\* run before it; /etc/fstab holds one line for /mnt/cocalc after a run.
C1_SecondRunChangesNothing ==
    /\ (phase = 0 /\ exit = "0" /\ clean /\ prevClean) => Tracked = snap
    /\ (phase = 0 /\ exit = "0") =>
          Len(SelectSeq(splitlines(fstab.text), IsCocalcMount)) = 1

\* a second clean run on a host with candidate disks, whose environment file
\* gets the public address substituted and both keys upserted
C1_Witness ==
    /\ phase = 0 /\ exit = "0" /\ run = 2
    /\ clean /\ prevClean
    /\ cfg.devices # <<>>
    /\ needs_public_ip(cfg.env_lines)
    /\ cfg.image_size_gb_raw = Auto
    /\ cfg.ssh_user # ""
    /\ \A b \in Bundles : deployed[b] /\ snap.current[b] = LinkTo(cfg.dir[b])

\* the running setup_btrfs has run the command with this name on target
RanOn(name, target) == \E i \in 1..Len(ran) : ran[i] = <<name, target>>

\* C21: across full runs, mkfs.btrfs is run only on the data disk when lsblk
\* reports no filesystem on it, or on the image file that the same call of
\* setup_btrfs has created with truncate; truncate is run only when the image
\* file does not exist; so the filesystem of a device or of an image changes
\* only from none to btrfs, by that mkfs.
C21_MkfsOnlyOnBlank ==
    [][/\ (pc = "sb_mkfs" /\ pc' # pc) => dev[sb.data_disk].fstype = ""
       /\ (pc = "sb_mkfsimg" /\ pc' # pc) =>
             /\ RanOn("truncate", sb.image_path)
             /\ img[sb.image_path].fstype = ""
       /\ (pc = "sb_truncate" /\ pc' # pc) => ~img[sb.image_path].exists
       /\ \A d \in Devs : <<dev'[d].fstype, dev'[d].gen>> # <<dev[d].fstype, dev[d].gen>> =>
             pc = "sb_mkfs" /\ d = sb.data_disk /\ dev[d].fstype = ""
       /\ \A q \in ImagePaths : img'[q] # img[q] =>
             /\ pc \in {"sb_truncate", "sb_mkfsimg"}
             /\ q = sb.image_path
             /\ img[q].fstype = ""]_vars

\* the second run uses the disk the first run formatted, without formatting it
C21_Witness ==
    /\ run = 2
    /\ pc = "sb_mount"
    /\ dev[sb.data_disk].fstype = "btrfs" /\ dev[sb.data_disk].gen = 1
    /\ ~RanOn("mkfs.btrfs", sb.data_disk)

----------------------------------------------------------------------------
(* Properties of the bundle deployer (SpecBundle) *)

\* the bundle being deployed had a deployment whose `current` link resolved
\* to a fully extracted directory when the running call started
PreviouslyDeployed ==
    /\ deployed[eb.bundle]
    /\ pre.current.kind = "link"
    /\ pre.dirs[pre.current.target].st = "full"

\* C2: if the extraction step of extract_bundle fails, `current` still points
\* at the directory it pointed at before the call and that directory still
\* has its previous contents -- for every previously deployed state, the one
\* whose directory is the directory now being deployed included.
C2_TarFailureKeepsPrevious ==
    (result = "raised_tar" /\ PreviouslyDeployed) =>
        /\ current[eb.bundle] = pre.current
        /\ dirs[eb.bundle][pre.current.target] = pre.dirs[pre.current.target]

\* the configured sha256 is not blank and differs from the download's digest
ShaMismatch ==
    /\ lower(strip(eb.sha256)) # <<>>
    /\ hexdigest(remote[eb.bundle]) # lower(strip(eb.sha256))

\* C3: with a configured sha256 that differs from the digest of the download,
\* extract_bundle raises before the version directory is deleted or recreated
\* and before any extraction, and `current` is as it was before the call.
C3_ChecksumBeforeExtraction ==
    /\ result = "raised_checksum" =>
          /\ ShaMismatch
          /\ dirs[eb.bundle] = pre.dirs
          /\ current[eb.bundle] = pre.current
    /\ pc \in {"rmdir", "rmtree", "mkdir", "tar", "untar", "swap", "symlink"} => ~ShaMismatch
    /\ result \in {"ok", "raised_tar", "raised_remove", "raised_symlink"} => ~ShaMismatch

\* a mismatching download over an earlier deployment in the same directory
C3_Witness ==
    /\ result = "raised_checksum"
    /\ PreviouslyDeployed
    /\ pre.current.target = eb.dir

\* C4: in every state of every sequence of extract_bundle calls, the `current`
\* symlink of a deployed bundle never points at a directory that is empty,
\* being deleted, or partially extracted.
C4_CurrentNeverPartial ==
    \A b \in Bundles :
        (deployed[b] /\ current[b].kind = "link") =>
            dirs[b][current[b].target].st \notin {"empty", "deleting", "partial"}

\* C5: once a bundle has been deployed, its `current` path is never absent,
\* in any state of any later deployment.
C5_CurrentNeverAbsent ==
    \A b \in Bundles : deployed[b] => current[b].kind # "none"

\* C6: after extract_bundle returns normally, `current` is a symlink to the
\* bundle's `dir`, whatever was at `current` before the call; the removal and
\* the symlink creation never fail on what is found there.
C6_CurrentIsDirAfterSuccess ==
    /\ result = "ok" => current[eb.bundle] = LinkTo(eb.dir)
    /\ result \notin {"raised_remove", "raised_symlink"}

\* a deployment that found a dangling symlink to another directory at `current`
C6_Witness ==
    /\ result = "ok"
    /\ pre.current.kind = "link"
    /\ pre.current.target # eb.dir
    /\ pre.dirs[pre.current.target].st = "absent"

\* C31: a bundle download is wrapped in the retry policy: when download_file
\* has made extract_bundle fail, the download was attempted more than once,
\* with a backoff sleep between the attempts.
C31_DownloadRetried ==
    result = "raised_download" =>
        /\ Len(SelectSeq(ran, LAMBDA c : c = "urlopen")) > 1
        /\ Len(slept) >= 1

\* C33: a deploy into version directory B leaves every other version
\* directory of the bundle root (and of the other bundles' roots) as it was,
\* present with the same files, at every step and however the deploy ends.
C33_OtherVersionsUntouched ==
    /\ [](eb # NoBundle =>
            \A d \in VersionDirs \ {eb.dir} : dirs[eb.bundle][d] = pre.dirs[d])
    /\ [][\A b \in Bundles : \A d \in VersionDirs :
             (b # eb'.bundle \/ d # eb'.dir) => dirs'[b][d] = dirs[b][d]]_vars

\* a deploy into one directory has failed in tar after another directory
\* was deployed, which is still full
C33_Witness ==
    /\ pc = "idle"
    /\ result = "raised_tar"
    /\ \E d \in VersionDirs \ {eb.dir} :
          /\ dirs[eb.bundle][d].st = "full"
          /\ current[eb.bundle] = LinkTo(d)
    /\ dirs[eb.bundle][eb.dir].st \in {"empty", "partial"}

----------------------------------------------------------------------------
(* Properties of the storage setup (SpecDisk) *)

\* C7: when the selected data disk has a filesystem that is not btrfs,
\* setup_btrfs raises and, in that call, has run no mkfs, has not mounted the
\* device and has not changed /etc/fstab; mkfs is only ever reached for a
\* device without a filesystem.
C7_ForeignFilesystemRefused ==
    /\ result = "raised_foreign" =>
          /\ dev[sb.data_disk].fstype \notin {"", "btrfs"}
          /\ \A i \in 1..Len(ran) : ran[i][1] \notin {"mkfs.btrfs", "mount", "mount -o loop"}
          /\ \A d \in Devs : /\ dev[d].fstype = sb.pre.dev[d].fstype
                             /\ dev[d].gen = sb.pre.dev[d].gen
          /\ \A m \in Mountpoints : mnt[m] = sb.data_disk => sb.pre.mnt[m] = sb.data_disk
          /\ fstab = sb.pre.fstab
    /\ pc = "sb_mkfs" => dev[sb.data_disk].fstype = ""
    /\ pc \in {"sb_mount", "sb_fstab"} => dev[sb.data_disk].fstype = "btrfs"

\* a refusal of an unmounted foreign disk
C7_Witness ==
    /\ result = "raised_foreign"
    /\ dev[sb.data_disk].fstype = "ext4"
    /\ \A m \in Mountpoints : mnt[m] # sb.data_disk

\* C8: of two existing candidate devices, one mounted at /mnt/cocalc and the
\* other unmounted and at least the minimum size, pick_data_disk returns the
\* mounted one, whatever their order in the candidate list.
C8_PicksMountedDevice ==
    \A a \in Devs : \A b \in Devs \ {a} :
        ( /\ pc = "sb_fstype"
          /\ sb.blind = {}
          /\ cfg.devices \in {<<a, b>>, <<b, a>>}
          /\ dev[a].exists /\ dev[b].exists
          /\ sb.pre.mnt["/mnt/cocalc"] = a
          /\ mnt["/mnt/cocalc"] = a
          /\ \A m \in Mountpoints : mnt[m] # b
          /\ dev[b].size >= MinDiskMiB )
        => sb.data_disk = a

\* setup_btrfs is in its wait for a data disk
Waiting == pc \in {"sb_poll", "sb_sleep"}

\* C26: with candidate devices configured the wait for a data disk ends: it
\* makes at most 60 polls, each failed poll followed by one sleep of 10
\* seconds, and when all 60 polls found no usable disk setup_btrfs goes on
\* with the loopback image; with no device configured it polls and sleeps
\* not at all.
C26_WaitIsBounded ==
    /\ [](/\ sleeps = PollSleep * sb.attempt
          /\ pc = "sb_poll" => sb.attempt < 60
          /\ pc = "sb_sleep" => sb.attempt < 60 /\ sb.data_disk = "none"
          /\ sb.attempt <= 60
          /\ (pc = "sb_image" /\ cfg.devices # <<>>) =>
                sb.attempt = 60 /\ sleeps = 600 /\ sb.data_disk = "none"
          /\ cfg.devices = <<>> => ~Waiting /\ sleeps = 0 /\ sb.attempt = 0)
    /\ [][(Waiting /\ ~Waiting') => pc' \in {"sb_fstype", "sb_image"}]_vars
    /\ (Waiting ~> ~Waiting)

\* the wait ran out and setup_btrfs turns to the loopback image
C26_Witness ==
    /\ pc = "sb_image"
    /\ cfg.devices # <<>>
    /\ sb.attempt = 60
    /\ sleeps = 600

\* device d is there, mounted nowhere and not too small
UsableUnmounted(d) ==
    /\ dev[d].exists
    /\ \A m \in Mountpoints : mnt[m] # d
    /\ dev[d].size >= MinDiskMiB

\* C34: of two usable unmounted candidate devices, one carrying btrfs and the
\* other blank or carrying a foreign filesystem, the disk selection takes the
\* btrfs one whatever their order in the list, so that setup_btrfs does not
\* refuse a foreign device while a btrfs device is available.
C34_PrefersBtrfsDevice ==
    \A a \in Devs : \A b \in Devs \ {a} :
        ( /\ cfg.devices \in {<<a, b>>, <<b, a>>}
          /\ sb.blind = {}
          /\ UsableUnmounted(a) /\ UsableUnmounted(b)
          /\ dev[a].fstype = "btrfs"
          /\ dev[b].fstype # "btrfs" )
        => /\ pc = "sb_fstype" => sb.data_disk = a
           /\ result # "raised_foreign"

\* the fstab line that names backing store src, a device or an image file
LineNaming(src) ==
    IF src \in Devs THEN disk_fstab_line(src, dev) ELSE image_fstab_line(src)

\* the entries of /etc/fstab for /mnt/cocalc
CocalcEntries ==
    SelectSeq(splitlines(read_or_empty(fstab)),
              LAMBDA l : Contains(l, <<" ", "/mnt/cocalc", " ">>))

\* C35: after setup_btrfs has returned successfully /mnt/cocalc is mounted
\* and the one fstab entry for /mnt/cocalc names the backing store that is
\* mounted there, also when /mnt/cocalc was mounted before the call from
\* another source than the one this call selected.
C35_FstabNamesMountedStore ==
    (pc = "idle" /\ result = "ok") =>
        /\ is_mount(mnt, "/mnt/cocalc")
        /\ CocalcEntries = <<LineNaming(mnt["/mnt/cocalc"])>>

----------------------------------------------------------------------------
(* Properties of the service start (SpecStart) *)

\* one of the recognised entrypoints exists below `current` or below `dir`
HasEntrypoint ==
    \E e \in {"bundle/index.js", "main/index.js", "dist/main.js"} :
        e \in FilesUnderCurrent(current["project_host_bundle"], dirs["project_host_bundle"])
              \cup FilesUnderDir(cfg.dir["project_host_bundle"], dirs["project_host_bundle"])

\* C9: when no entrypoint exists under `current` or `dir`, start_project_host
\* raises the missing-entrypoint failure having run neither `daemon stop` nor
\* `daemon start`; it raises that failure in no other case.
C9_EntrypointGuard ==
    /\ result = "raised_entrypoint" => ~HasEntrypoint /\ ran = <<>>
    /\ pc \in {"sp_stop", "sp_start"} => HasEntrypoint
    /\ result \in {"ok", "raised_stop", "raised_start"} => HasEntrypoint

\* the guard raised on a host where the daemon is running and a wrapper exists
C9_Witness ==
    /\ result = "raised_entrypoint"
    /\ daemon = "running"
    /\ wrapper
    /\ current["project_host_bundle"].kind = "link"

\* write_wrapper: the file the wrapper hands to node, relative to `current`
bundle_entry == "bundle/index.js"

\* the wrapper written by write_wrapper can start: its entry file exists
WrapperCanStart ==
    bundle_entry \in FilesUnderCurrent(current["project_host_bundle"],
                                       dirs["project_host_bundle"])

IssuedAt(c) ==
    IF \E i \in 1..Len(ran) : ran[i] = c
    THEN CHOOSE i \in 1..Len(ran) : ran[i] = c ELSE 0

\* C27: start_project_host issues `daemon stop` (only when the wrapper
\* exists) before `daemon start`; once the stop was issued the start is
\* issued too, however the stop failed (non-zero exit or an exception while
\* launching it); a start that exits non-zero makes the phase raise.
C27_StopNeverPreventsStart ==
    /\ IssuedAt("daemon stop") > 0 => wrapper
    /\ (IssuedAt("daemon stop") > 0 /\ IssuedAt("daemon start") > 0) =>
          IssuedAt("daemon stop") < IssuedAt("daemon start")
    /\ (pc = "idle" /\ result # "none" /\ IssuedAt("daemon stop") > 0) =>
          IssuedAt("daemon start") > 0
    /\ (pc = "idle" /\ result \notin {"none", "ok"} /\ IssuedAt("daemon start") > 0) =>
          result = "raised_start"

----------------------------------------------------------------------------
(* Properties of the retry policy (SpecApt) *)

\* C10: for retries >= 1, apt_run on an action that always fails runs it
\* exactly `retries` times, sleeps the fixed backoff exactly retries - 1 times
\* (between consecutive attempts, never after the last) and re-raises; on an
\* action that first succeeds at attempt k it runs it exactly k times and
\* returns.
C10_RetryBound ==
    /\ result = "raised_apt" =>
          /\ runs = ar.retries
          /\ Len(slept) = ar.retries - 1
    /\ (result = "ok" /\ ar.retries >= 1) =>
          /\ runs = ar.attempt
          /\ runs <= ar.retries
          /\ Len(slept) = runs - 1
    /\ pc = "apt_try" => runs = ar.attempt - 1 /\ Len(slept) = runs
    /\ pc = "apt_sleep" => runs = ar.attempt /\ Len(slept) = runs - 1 /\ runs < ar.retries
    /\ \A i \in 1..Len(slept) :
          slept[i] = IF ar.desc = "apt-get update" THEN 5 ELSE 10

\* an apt_run that failed every one of its MaxRetries attempts
C10_Witness ==
    /\ result = "raised_apt"
    /\ ar.retries = MaxRetries
    /\ runs = MaxRetries
    /\ Len(slept) = MaxRetries - 1

----------------------------------------------------------------------------
(* Properties of the secrets provisioner (SpecSecret) *)

\* the operations named op of the running call
OpsNamed(op) == SelectSeq(ran, LAMBDA r : r[1] = op)

\* a call that found the secret file in place has returned or raised
SecretWasPresent == pc = "idle" /\ result # "none" /\ mt.pre.exists

\* C38: a failed secret fetch leaves no secret file: when the HTTPS request
\* fails and the curl fallback fails too, or curl is not installed,
\* /mnt/cocalc/data/secrets/master-conat-token does not exist after the call.
C38_FailedFetchLeavesNoSecret ==
    (pc = "idle" /\ result \in {"raised_fetch", "raised_command"}) => ~secret.exists

\* C11 as stated: when the secret file already exists, a call fetches
\* nothing over the network (no HTTPS request, no curl), leaves the content
\* as it was, and resets the mode to owner-only and the owner to the runtime
\* user.
C11_PresentSecretNormalized ==
    SecretWasPresent =>
        /\ OpsNamed("urlopen") = <<>> /\ OpsNamed("curl") = <<>>
        /\ secret.exists /\ secret.data = mt.pre.data
        /\ secret.mode = "0600"
        /\ cfg.ssh_user # "" => secret.owner = cfg.ssh_user

\* C11 amended: when the secret file already exists, a call returns
\* normally having fetched nothing over the network and with the content as
\* it was; when conat_url and bootstrap_token are configured it has run
\* chmod 0600 on the file, and chown to the runtime user when that user is
\* set and is not root, and the mode and the owner are reset whenever these
\* operations succeed.
C11_PresentSecretNotRefetched ==
    SecretWasPresent =>
        /\ result = "ok"
        /\ OpsNamed("urlopen") = <<>> /\ OpsNamed("curl") = <<>>
        /\ secret.exists /\ secret.data = mt.pre.data
        /\ token_configured(cfg) =>
              /\ Len(OpsNamed("chmod")) = 1
              /\ <<"chmod", TRUE>> = OpsNamed("chmod")[1] => secret.mode = "0600"
              /\ chown_wanted(cfg) =>
                    /\ Len(OpsNamed("chown")) = 1
                    /\ <<"chown", TRUE>> = OpsNamed("chown")[1] =>
                          secret.owner = cfg.ssh_user
        /\ ~token_configured(cfg) => secret = mt.pre

\* a call on a world-readable secret of another owner, which it makes
\* owner-only and hands to the runtime user
C11_Witness ==
    /\ SecretWasPresent
    /\ mt.pre.mode = "0644" /\ secret.mode = "0600"
    /\ mt.pre.owner = "nobody" /\ secret.owner = "cocalc"
    /\ secret.data = "old-token"

----------------------------------------------------------------------------
(* Properties of any invocation (SpecInvoke) *)

\* the phase of the documented sequence a call of main belongs to, "" for
\* ensure_bootstrap_paths and compute_image_size, which it does not list
StageOf(f) ==
    CASE f = "ensure_platform" -> "PlatformCheck"
      [] f \in {"disable_unattended", "apt_update_install"} -> "PackageSetup"
      [] f = "install_gpu_support" -> "OptionalGPU"
      [] f = "configure_chrony" -> "TimeSync"
      [] f \in {"enable_userns", "ensure_runtime_user", "ensure_subuids", "enable_linger"} ->
             "UserNamespace/RuntimeUser"
      [] f = "prepare_dirs" -> "StoragePrep"
      [] f \in {"setup_btrfs", "install_btrfs_helper", "ensure_btrfs_data"} -> "StorageMount"
      [] f = "configure_podman" -> "ContainerRuntimeConfig"
      [] f = "write_env" -> "EnvWrite"
      [] f = "setup_master_conat_token" -> "SecretsFetch"
      [] f \in Bundles -> "BundleDeploy"
      [] f = "install_node" -> "NodeInstall"
      [] f = "write_wrapper" -> "WrapperWrite"
      [] f = "write_helpers" -> "HelpersWrite"
      [] f = "configure_runtime_sudoers" -> "Sudoers"
      [] f = "configure_cloudflared" -> "TunnelSetup"
      [] f = "configure_autostart" -> "Autostart"
      [] f = "start_project_host" -> "ServiceStart"
      [] f = "reenable_unattended" -> "ReenablePackageAutoUpdates"
      [] f = "touch_paths" -> "MarkDone"
      [] OTHER -> ""

Stages ==
    <<"PlatformCheck", "PackageSetup", "OptionalGPU", "TimeSync",
      "UserNamespace/RuntimeUser", "StoragePrep", "StorageMount",
      "ContainerRuntimeConfig", "EnvWrite", "SecretsFetch", "BundleDeploy",
      "NodeInstall", "WrapperWrite", "HelpersWrite", "Sudoers", "TunnelSetup",
      "Autostart", "ServiceStart", "ReenablePackageAutoUpdates", "MarkDone">>

\* the phases a sequence of calls goes through, in order
RECURSIVE StagesOf(_)
StagesOf(t) ==
    IF t = <<>> THEN <<>>
    ELSE LET r == StagesOf(SubSeq(t, 1, Len(t) - 1))
             g == StageOf(t[Len(t)])
         IN  IF g = "" \/ (r # <<>> /\ r[Len(r)] = g) THEN r ELSE Append(r, g)

IsPrefix(a, b) == Len(a) <= Len(b) /\ a = SubSeq(b, 1, Len(a))

\* the calls in t that deploy a bundle
DeploysIn(t) == SelectSeq(t, LAMBDA f : f \in Bundles)

\* C12: in a full run the phases are gone through in the documented order,
\* platform check first and mark done last, with three bundle deploys, one
\* per bundle, between the secrets fetch and the Node install; main makes a
\* call only while no earlier call is running and none has raised.
C12_FullRunOrder ==
    /\ [](only = {} =>
            /\ IsPrefix(StagesOf(trace), Stages)
            /\ Len(DeploysIn(trace)) <= 3
            /\ \A i, j \in 1..Len(DeploysIn(trace)) :
                  i # j => DeploysIn(trace)[i] # DeploysIn(trace)[j]
            /\ "install_node" \in {trace[i] : i \in 1..Len(trace)} =>
                  Len(DeploysIn(trace)) = 3)
    /\ [][(only' = {} /\ trace' # trace /\ Len(trace') > 1) =>
            /\ trace' = Append(trace, trace'[Len(trace')])
            /\ pc = "idle"
            /\ exit = "none"
            /\ exit' = "none"
            /\ \A i \in 1..Len(logged') : logged'[i] # "bootstrap: failed"]_vars

\* a full run that has gone through every phase and is about to return
C12_Witness ==
    /\ only = {}
    /\ phase_name = "return"
    /\ StagesOf(trace) = Stages

\* the log lines of the running invocation that are `line`
LoggedLines(line) == SelectSeq(logged, LAMBDA l : l = line)

\* the running invocation has logged its failure
Failed == LoggedLines("bootstrap: failed") # <<>>

\* what the phases write on the host, the environment file apart
Artifacts == <<dirs, current, root, wrapper, daemon, dev, mnt, img, fstab, legacy,
               userExists, paths, secret, markers>>

\* C13: when a phase raises, in a full or a subset run, main makes no
\* further call, logs "bootstrap: failed" once, as the last line, and returns
\* 1 (and returns 1 in no other way); the step leaves what earlier phases
\* wrote as it is, no done marker is touched and "completed successfully" is
\* not logged.
C13_FailureIsTerminal ==
    /\ [](Failed =>
            /\ phase = 0 /\ exit = "1"
            /\ Len(LoggedLines("bootstrap: failed")) = 1
            /\ logged[Len(logged)] = "bootstrap: failed"
            /\ LoggedLines("bootstrap: completed successfully") = <<>>
            /\ \A i \in 1..Len(trace) : trace[i] # "touch_paths")
    /\ [](exit = "1" => Failed)
    /\ [][(Failed' /\ ~Failed) =>
            /\ Artifacts' = Artifacts
            /\ envfile' = envfile \/ phase_name = "write_env"
            /\ trace' = trace]_vars
    /\ [][Failed => (trace' = trace \/ run' = run + 1)]_vars

\* a subset run that deployed the project bundle and then failed to deploy
\* the tools bundle
C13_Witness ==
    /\ Failed
    /\ exit = "1"
    /\ only = {"project_bundle", "tools_bundle"}
    /\ trace[Len(trace)] = "tools_bundle"
    /\ deployed["project_bundle"]
    /\ current["project_bundle"] = LinkTo(cfg.dir["project_bundle"])

\* ensure_platform has run and accepted the host in the running invocation
PlatformAccepted == \E i \in 1..Len(trace) : trace[i] = "compute_image_size"

\* C14: in the first invocation on a host, full or subset, nothing is
\* created or changed on the host (no directory made, no ownership changed,
\* no bundle downloaded or deployed) unless ensure_platform has run and
\* accepted the host.
C14_PlatformCheckFirst ==
    (run = 1 /\ ~PlatformAccepted) =>
        /\ paths = NoPaths
        /\ \A b \in Bundles : remote[b] = 0 /\ ~deployed[b]

\* C16: whenever a full run has logged "bootstrap: completed successfully"
\* and returned 0, every configured done marker exists; and a done marker is
\* created only by a run whose start_project_host has returned normally.
C16_SuccessHasMarkers ==
    /\ []((only = {} /\ phase = 0 /\ exit = "0"
            /\ LoggedLines("bootstrap: completed successfully") # <<>>) =>
              \A p \in DonePaths : markers[p])
    /\ [][markers' # markers =>
            /\ phase_name = "touch_paths"
            /\ \E i \in 1..Len(trace) : trace[i] = "reenable_unattended"]_vars

\* C39: a done marker exists only if the most recent full run succeeded: a
\* full run that fails on a host where an earlier run created markers does
\* not leave them.
C39_MarkersMeanLastRunSucceeded ==
    (only = {} /\ phase = 0 /\ run > 0 /\ \E p \in DonePaths : markers[p]) =>
        exit = "0"

\* the calls main has made in this invocation
Called == {trace[i] : i \in 1..Len(trace)}

\* C40: every full run that reaches disable_unattended re-enables the
\* unattended upgrades before main returns, whether the run succeeds or
\* fails.
C40_UnattendedReenabled ==
    (only = {} /\ phase = 0 /\ exit \in {"0", "1"} /\ "disable_unattended" \in Called) =>
        "reenable_unattended" \in Called

\* C18: in an invocation with a non-empty selector, main calls nothing but
\* ensure_bootstrap_paths, extract_bundle for the bundles the selector names
\* and, when project_host_bundle is named, write_wrapper and write_helpers;
\* it returns 0 unless one of these calls raised, having then deployed every
\* named bundle; the directories and `current` of the bundles not named,
\* and what the other phases produce (mounts, fstab, environment file,
\* runtime user, daemon, done markers), stay as they were.
C18_SubsetDeploysNamed ==
    /\ [](only # {} =>
            Called \subseteq
                {"ensure_bootstrap_paths"} \cup (only \cap Bundles)
                \cup (IF "project_host_bundle" \in only
                      THEN {"write_wrapper", "write_helpers"} ELSE {}))
    /\ []((only # {} /\ phase = 0) =>
            /\ exit = "0" \/ LoggedLines("bootstrap: failed") # <<>>
            /\ exit = "0" =>
                 /\ \A b \in Bundles : b \in Called <=> b \in only
                 /\ \A b \in only \cap Bundles : deployed[b]
                 /\ "write_wrapper" \in Called <=> "project_host_bundle" \in only
                 /\ "write_helpers" \in Called <=> "project_host_bundle" \in only)
    /\ [][(only # {} /\ phase > 0) =>
            /\ \A b \in Bundles \ only : dirs'[b] = dirs[b] /\ current'[b] = current[b]
            /\ <<mnt, img, fstab, envfile, userExists, daemon, markers, secret>>'
                 = <<mnt, img, fstab, envfile, userExists, daemon, markers, secret>>]_vars

\* a subset invocation naming two of the three bundles has returned 0 with
\* both deployed
C18_Witness ==
    /\ only = {"project_bundle", "tools_bundle"}
    /\ phase = 0
    /\ exit = "0"
    /\ deployed["project_bundle"] /\ deployed["tools_bundle"]
    /\ Called = {"ensure_bootstrap_paths", "project_bundle", "tools_bundle"}

----------------------------------------------------------------------------
(* Properties of resumption (SpecResume) *)

\* C17: a full invocation on the host that a failed or terminated invocation
\* left behind, in which no command fails that can succeed, returns 0 with
\* /mnt/cocalc mounted on a btrfs filesystem and every bundle deployed.
C17_ResumedRunSucceeds ==
    (run > 1 /\ phase = 0) =>
        /\ exit = "0"
        /\ is_mount(mnt, "/mnt/cocalc")
        /\ \A b \in Bundles : deployed[b]

----------------------------------------------------------------------------
(* Properties of the mount table (SpecFstab) *)

\* the mountpoint of an fstab line: its second field, fields being separated
\* by spaces or tabs
Mountpoint(l) ==
    LET fields == SelectSeq(l, LAMBDA t : t \notin {" ", "\t"})
    IN  IF Len(fields) >= 2 THEN fields[2] ELSE ""

LinesFor(text, points) ==
    SelectSeq(splitlines(text), LAMBDA l : Mountpoint(l) \in points)

LinesBeside(text, points) ==
    SelectSeq(splitlines(text), LAMBDA l : Mountpoint(l) \notin points)

\* C19: after update_fstab(line), whatever /etc/fstab held, it holds exactly
\* one entry for /mnt/cocalc, which is `line`, no entry for /btrfs, and the
\* other lines it held before, in their order.
C19_OneMountEntry ==
    (ran # <<>> /\ ran[1][1] = "update_fstab") =>
        /\ LinesFor(fstab.text, {"/mnt/cocalc"}) = <<ran[1][2]>>
        /\ LinesFor(fstab.text, {"/btrfs"}) = <<>>
        /\ LinesBeside(fstab.text, {"/mnt/cocalc", "/btrfs"})
             = LinesBeside(read_or_empty(sb.pre.fstab), {"/mnt/cocalc", "/btrfs"})

----------------------------------------------------------------------------
(* Properties of best-effort commands (SpecCmd) *)

\* the k-th command of reenable_unattended failed: a non-zero exit status,
\* or subprocess.run raised
CommandFailed(k) == ran[k].how = "raised" \/ ran[k].rc # 0

\* the log tells of it: the "failed (ignored)" line, or at least output of
\* the command
FailureLogged(k) ==
    \/ LoggedLines("bootstrap: " \o BestEffortDescs[k] \o " failed (ignored)") # <<>>
    \/ ran[k].out # <<>>

\* C20: whatever becomes of the command (exit status, missing executable,
\* another exception), run_best_effort returns to its caller, which goes on
\* with its next statement, and a failure of the command is logged.
C20_BestEffortNeverEscalates ==
    /\ [](\A k \in 1..Len(ran) :
            (pc = rbe_next(k) /\ CommandFailed(k)) => FailureLogged(k))
    /\ [](result \in {"none", "ok"})
    /\ [][\A k \in 1..Len(BestEffortDescs) :
            (pc \in {rbe_pc(k, "run"), rbe_pc(k, "except")} /\ pc' # pc) =>
                pc' \in {rbe_pc(k, "except"), rbe_next(k)}]_vars

----------------------------------------------------------------------------
(* Properties of storage growth (SpecGrow) *)

\* the growth helper has just run
HelperRan == ran # <<>> /\ pc = "idle" /\ phase = 0 /\ result \in {"exit0", "exit1"}

\* C22: no step of a full run and no run of the growth helper, whatever its
\* target, removes an image file or makes it smaller.
C22_ImageNeverShrinks ==
    [][\A p \in ImagePaths :
          img[p].exists => img'[p].exists /\ img'[p].size_gb >= img[p].size_gb]_vars

\* the helper was given a target below the size of the mounted image, whose
\* size is what the first run made it
C22_Witness ==
    /\ HelperRan
    /\ ran[1].as_root
    /\ ran[1].arg = <<"3">>
    /\ mnt["/mnt/cocalc"] = "/var/lib/cocalc/cocalc.img"
    /\ ran[1].img["/var/lib/cocalc/cocalc.img"].size_gb > 3
    /\ img = ran[1].img

\* a precondition of the helper was not met when it ran: /mnt/cocalc not
\* mounted, the image file missing, or neither $1 nor the environment file
\* giving a number
HelperUnmet ==
    \/ ~is_mount(mnt, "/mnt/cocalc")
    \/ ~ran[1].img[choose_image(ran[1].img)].exists
    \/ /\ digits_prefix(ran[1].arg) = <<>>
       /\ ~ran[1].envfile.exists \/ ~is_int(token_digits(env_target(ran[1].envfile)))

\* C23: run as root with a precondition not met, the helper exits 0, runs no
\* command on the image or the filesystem, and leaves the image files and
\* the environment file as they were.
C23_UnmetPreconditionsNoOp ==
    (HelperRan /\ ran[1].as_root /\ HelperUnmet) =>
        /\ result = "exit0"
        /\ ran[1].cmds = <<>>
        /\ img = ran[1].img
        /\ envfile = ran[1].envfile

----------------------------------------------------------------------------
(* Properties of the helpers and optional features (SpecHelpers) *)

\* sudo has just allowed the command in `ran`
SudoAllowed == result = "allowed" /\ Len(ran) = 1

\* names of systemd units a command line can hold
UnitNames == CloudflaredWords \cup {"ssh"}

\* the command is systemctl or journalctl, and cocalc-cloudflared is the only
\* unit its arguments name
OnCloudflared(path, args) ==
    /\ path \in CloudTools
    /\ \E i \in 1..Len(args) : args[i] \in CloudflaredWords
    /\ \A i \in 1..Len(args) : args[i] \in UnitNames => args[i] \in CloudflaredWords

\* C24: the sudoers fragment grants the runtime user the storage-growth
\* helper and systemctl/journalctl on cocalc-cloudflared and no other command:
\* whatever sudo allows is one of these.
C24_SudoersExactlyHelpers ==
    SudoAllowed =>
        \/ ran[1].path = GrowHelper
        \/ OnCloudflared(ran[1].path, ran[1].args)

\* what a GPU installation leaves on the host
GpuArtifacts ==
    {"pkg:gnupg", "pkg:nvidia-container-toolkit",
     "/usr/share/keyrings/nvidia-container-toolkit-keyring.gpg",
     "/etc/apt/sources.list.d/nvidia-container-toolkit.list",
     "/usr/local/sbin/cocalc-nvidia-cdi", "/etc/cron.d/cocalc-nvidia-cdi"}

\* the tunnel client's package, credentials, configuration and service unit
TunnelInstall ==
    {"pkg:cloudflared", "/etc/cloudflared/token.env", "/etc/cloudflared/tunnel.json",
     "/etc/cloudflared/None.json",
     "/etc/cloudflared/config.yml", "/etc/systemd/system/cocalc-cloudflared.service"}

\* the helper scripts that drive the tunnel service
TunnelHelpers == {"bin/logs-cf", "bin/ctl-cf"}

\* the last step was a call of function f
JustCalled(f) == trace' = Append(trace, f)

C32_TunnelHasAuth ==
    (cfg.cloudflared.enabled /\ "configure_cloudflared" \in Called) =>
        /\ \/ cfg.cloudflared.token # ""
           \/ cfg.cloudflared.tunnel_id # "" /\ cfg.cloudflared.creds_json # ""
        /\ paths.tunnel.tunnel # "None"
        /\ paths.tunnel.credentials_file # "" =>
              paths.tunnel.credentials_file \in paths.made

\* C37: a sudoers fragment that fails validation is never left installed:
\* when `visudo -c` rejects the fragment and configure_runtime_sudoers
\* raises, /etc/sudoers.d/cocalc-project-host-runtime does not exist
\* afterwards (on a host whose visudo rejects the fragment of this
\* configuration no earlier valid content exists to fall back to).
C37_RejectedFragmentNotInstalled ==
    result = "raised_visudo" => paths.sudoers = {}

----------------------------------------------------------------------------
(* Properties of the log (SpecLog) *)

\* C28: log_line never raises because of the log file: whatever fails in
\* creating the log directory or in opening and appending to the log file,
\* every call has written its line to stdout and returns normally.
C28_LogFileNeverRaises ==
    /\ Len(logged) = calls
    /\ (pc = "idle" /\ calls > 0) => result = "ok"

----------------------------------------------------------------------------
(* Properties of the platform guard (SpecPlatform) *)

\* the classes of machine names that denote one architecture
ArchClasses == {{"x86_64", "amd64"}, {"aarch64", "arm64"}}

\* ensure_platform has been called and has returned or raised
PlatformChecked == pc = "idle" /\ calls > 0

\* C29 (as stated): ensure_platform succeeds exactly when the live kernel
\* name is the configured OS and the live and the configured architecture
\* are in the same synonym class; a live architecture in no class fails.
C29_SynonymClassesMatch ==
    PlatformChecked =>
        /\ result = "ok" <=>
              /\ lower_word(host.sysname) = cfg.expected_os
              /\ \E cl \in ArchClasses : host.machine \in cl /\ cfg.expected_arch \in cl
        /\ (\A cl \in ArchClasses : host.machine \notin cl) => result # "ok"

\* C29 (amended): ensure_platform succeeds exactly when the lower-cased live
\* kernel name is the configured OS and the configured architecture is the
\* canonical token of the live architecture's class, amd64 for x86_64 and
\* amd64, arm64 for aarch64 and arm64; a live architecture in no class fails.
C29_CanonicalTokenMatches ==
    PlatformChecked =>
        /\ result = "ok" <=>
              /\ lower_word(host.sysname) = cfg.expected_os
              /\ \/ host.machine \in {"x86_64", "amd64"} /\ cfg.expected_arch = "amd64"
                 \/ host.machine \in {"aarch64", "arm64"} /\ cfg.expected_arch = "arm64"
        /\ (\A cl \in ArchClasses : host.machine \notin cl) => result # "ok"

\* a host whose machine name is a synonym of the configured token is accepted
C29_Witness ==
    /\ PlatformChecked
    /\ host.machine = "aarch64"
    /\ cfg.expected_arch = "arm64"
    /\ result = "ok"

----------------------------------------------------------------------------
(* Properties of the environment file (SpecEnv) *)

\* the lines of file f
LinesOf(f) == IF f.exists THEN splitlines(f.text) ELSE <<>>

\* the lines of f that set `key`, and the others, each in their order
Setting(f, key) == SelectSeq(LinesOf(f), LAMBDA l : StartsWith(l, <<key, "=">>))
NotSetting(f, key) == SelectSeq(LinesOf(f), LAMBDA l : ~StartsWith(l, <<key, "=">>))

\* an upsert has just been made
Upserted == pc = "idle" /\ Len(ran) = 1 /\ calls > 0

\* C30 (as stated): after upsert_env(path, key, value) the file holds exactly
\* one line starting with `key=`, that line is `key=value`, every other line
\* is unchanged and in its original order, and the same upsert again leaves
\* the file unchanged.
C30_UpsertLeavesOneLine ==
    Upserted =>
        /\ Setting(envfile, ran[1].key) = <<<<ran[1].key, "=", ran[1].value>>>>
        /\ NotSetting(envfile, ran[1].key) = NotSetting(snap.envfile, ran[1].key)
        /\ upsert_env(envfile, ran[1].key, ran[1].value) = envfile

\* C30 (amended): after upsert_env(path, key, value) every line starting with
\* `key=` is `key=value`, and there are as many of them as before, one if
\* there was none; every other line is unchanged and in its original order,
\* and the same upsert again leaves the file unchanged.
C30_UpsertSetsEveryLine ==
    Upserted =>
        LET before == Len(Setting(snap.envfile, ran[1].key))
            now == Setting(envfile, ran[1].key)
        IN  /\ Len(now) = IF before = 0 THEN 1 ELSE before
            /\ \A i \in 1..Len(now) : now[i] = <<ran[1].key, "=", ran[1].value>>
            /\ NotSetting(envfile, ran[1].key) = NotSetting(snap.envfile, ran[1].key)
            /\ (before > 0 =>
                  \A i \in 1..Len(LinesOf(snap.envfile)) :
                      ~StartsWith(LinesOf(snap.envfile)[i], <<ran[1].key, "=">>) =>
                          LinesOf(envfile)[i] = LinesOf(snap.envfile)[i])
            /\ upsert_env(envfile, ran[1].key, ran[1].value) = envfile

\* an upsert into a file that set the key twice
C30_Witness ==
    /\ Upserted
    /\ Len(Setting(snap.envfile, ran[1].key)) = 2
    /\ Len(Setting(envfile, ran[1].key)) = 2
    /\ Setting(snap.envfile, ran[1].key)[2] # <<ran[1].key, "=", ran[1].value>>

----------------------------------------------------------------------------
(* Properties of the configuration loader (SpecConfig) *)

\* the required fields in the order of BootstrapConfig, with their types
Required ==
    [i \in 1..9 |->
        [field |-> <<"bootstrap_user", "bootstrap_home", "bootstrap_root",
                     "bootstrap_dir", "bootstrap_tmp", "log_file", "expected_os",
                     "expected_arch", "image_size_gb_raw">>[i], type |-> "str"]] \o
    <<[field |-> "apt_packages", type |-> "list"],
      [field |-> "ssh_user", type |-> "str"],
      [field |-> "env_file", type |-> "str"],
      [field |-> "env_lines", type |-> "list"],
      [field |-> "node_version", type |-> "str"],
      [field |-> "project_host_bundle", type |-> "bundle"],
      [field |-> "project_bundle", type |-> "bundle"],
      [field |-> "tools_bundle", type |-> "bundle"],
      [field |-> "bootstrap_done_paths", type |-> "list"]>>

\* the field is missing from the document or of the wrong type; a bundle
\* must be an object with its five string fields
Malformed(doc, r) ==
    CASE r.type = "str" -> doc[r.field] \notin {"str", "empty_str"}
      [] r.type = "list" -> doc[r.field] \notin {"list", "empty_list"}
      [] OTHER ->
           \/ doc[r.field] \notin {"dict", "empty_dict"}
           \/ doc[r.field] = "empty_dict"
           \/ \E i \in 1..Len(BundleFields) :
                 doc[r.field \o "." \o BundleFields[i]] \notin {"str", "empty_str"}

MalformedAt(doc) == {i \in 1..Len(Required) : Malformed(doc, Required[i])}

\* messages that name field f, or for a bundle one of its fields
Naming(f) ==
    {f \o " missing or invalid", f \o " must be list", f \o " must be boolean"} \cup
    {f \o "." \o BundleFields[i] \o " missing or invalid" : i \in 1..Len(BundleFields)}

\* C15: when a required field of the document is missing or of the wrong
\* type, every invocation ends with a non-zero exit, by a failure of
\* load_config that names the first such field, and before main has made any
\* call or made anything on the host (the log directory included).
C15_BadConfigNamed ==
    (MalformedAt(rawdoc) # {} /\ run > 0) =>
        /\ exit = "1"
        /\ trace = <<>>
        /\ paths = NoPaths
        /\ result \in Naming(Required[CHOOSE i \in MalformedAt(rawdoc) :
                                         \A j \in MalformedAt(rawdoc) : i <= j].field)

====
